---- MODULE Spec2Model ----
(***************************************************************************)
(* Model of framed's SBML codec (src/framed/io_utils/sbml.py) and of the   *)
(* ensemble persistence built on it (src/framed/experimental/ensemble.py). *)
(*                                                                         *)
(* Spec         : save and load of flux bounds and objective coefficients  *)
(*                of a constraint-based model, per flavor.                 *)
(* SpecMetadata : one annotation map through the notes codec.              *)
(* SpecEnsemble : save_ensemble / load_ensemble.                           *)
(* SpecLoad     : the stages of one load_cbmodel call.                     *)
(* SpecGpr      : one legacy rule text through parse_gpr_rule.             *)
(* SpecAssoc    : the GPR association of one reaction through one dialect. *)
(* SpecLegacy   : a whole model saved and loaded in the legacy dialect.    *)
(* SpecSimulate : one simulate_ensemble call.                              *)
(***************************************************************************)
EXTENDS Integers, Sequences, FiniteSets, TLC

VARIABLES
    \* Spec: a save/load run of the bounds and objective
    bounds,      \* CBModel.bounds: reaction id -> <<lb, ub>>, each None or a number
    objective,   \* CBModel.objective: reaction id -> coefficient
    flavor,      \* the flavor argument of the save and of the load
    sbml,        \* the SBML document written by the save
    save_raised, \* the exception the save raised ("" when it returned)
    loaded,      \* what the load produced: outcome, bounds, objective
    pc,          \* position of the save/load run
    \* SpecMetadata: one element through the metadata codec
    elem_metadata,   \* elem.metadata of the element saved
    elem_notes,      \* the notes written on the SBML element
    loaded_metadata, \* elem.metadata of the element loaded
    md_pc,           \* position of the codec run
    \* SpecEnsemble: an ensemble saved and loaded, or a document loaded
    ensemble,        \* the EnsembleModel saved: None or Some([size, reaction_states])
    rxn_metadata,    \* ensemble.model.reactions[r].metadata
    ens_notes,       \* the notes of each reaction of the document
    ens_result,      \* what load_ensemble did: raised, returned, value
    ens_pc,          \* position of the ensemble run
    \* SpecLoad: the stages of one load_cbmodel call
    ld_doc,          \* the document read from the file
    ld_flavor,       \* the flavor argument
    ld_pc,           \* the stage the load is about to enter
    ld_trace,        \* the stages completed and the metadata decoded, in order
    ld_result,       \* raised, returned, and the constraints set on the model
    \* SpecGpr: one legacy rule text through parse_gpr_rule
    rule_expr,       \* the expression the rule text was written from
    rule_spelling,   \* how the text spells the genes, and where it puts parentheses
    rule_text,       \* the rule text
    gpr_result,      \* raised, and the GPRAssociation returned
    gpr_pc,          \* position of the parse
    \* SpecAssoc: one GPR association through one dialect
    assoc_source,    \* where the run starts: a GPRAssociation of a model, or a document
    assoc_dialect,   \* the flavor of the save and of the load
    assoc_raw,       \* what the document holds: the rule text, or the fbc association
    assoc_result,    \* raised, the GPR set on the reaction, and whether a message was printed
    assoc_pc,        \* position of the run
    \* SpecLegacy: a model saved and loaded, or a document loaded, flavor cobra
    lg_model,        \* the CBModel saved: bounds, objective, reaction metadata, GPRs
    lg_before,       \* the reaction metadata when save_cbmodel was last called
    lg_origin,       \* what a document loaded from elsewhere was written from
    lg_doc,          \* the document: kinetic law and notes of every reaction
    lg_trace,        \* the rules rendered and the notes encoded by the save, in order
    lg_loaded,       \* what the load produced
    lg_pc,           \* position of the run
    \* SpecSimulate: one simulate_ensemble call
    sim_ensemble,    \* the EnsembleModel: size and reaction_states
    sim_constraints, \* the constraints argument: None or a dict
    sim_i,           \* the loop variable i
    sim_calls,       \* the calls of func made so far, with what each returned
    sim_flux,        \* flux_sample
    sim_raised,      \* the exception that left the call ("" for none)
    sim_pc           \* position of the call

cbVars == <<bounds, objective, flavor, sbml, save_raised, loaded, pc>>
mdVars == <<elem_metadata, elem_notes, loaded_metadata, md_pc>>
ensVars == <<ensemble, rxn_metadata, ens_notes, ens_result, ens_pc>>
ldVars == <<ld_doc, ld_flavor, ld_pc, ld_trace, ld_result>>
gprVars == <<rule_expr, rule_spelling, rule_text, gpr_result, gpr_pc>>
assocVars == <<assoc_source, assoc_dialect, assoc_raw, assoc_result, assoc_pc>>
lgVars == <<lg_model, lg_before, lg_origin, lg_doc, lg_trace, lg_loaded, lg_pc>>
simVars == <<sim_ensemble, sim_constraints, sim_i, sim_calls, sim_flux, sim_raised, sim_pc>>
vars == <<cbVars, mdVars, ensVars, ldVars, gprVars, assocVars, lgVars, simVars>>

\* The variables a specification leaves alone: those of the others.
notCb == <<mdVars, ensVars, ldVars, gprVars, assocVars, lgVars, simVars>>
notMd == <<cbVars, ensVars, ldVars, gprVars, assocVars, lgVars, simVars>>
notEns == <<cbVars, mdVars, ldVars, gprVars, assocVars, lgVars, simVars>>
notLd == <<cbVars, mdVars, ensVars, gprVars, assocVars, lgVars, simVars>>
notGpr == <<cbVars, mdVars, ensVars, ldVars, assocVars, lgVars, simVars>>
notAssoc == <<cbVars, mdVars, ensVars, ldVars, gprVars, lgVars, simVars>>
notLegacy == <<cbVars, mdVars, ensVars, ldVars, gprVars, assocVars, simVars>>
notSimulate == <<cbVars, mdVars, ensVars, ldVars, gprVars, assocVars, lgVars>>

(***************************************************************************)
(* Program constants (sbml.py:24-37).                                      *)
(***************************************************************************)
COBRA_MODEL == "cobra"
FBC2_MODEL == "fbc2"

LB_TAG == "LOWER_BOUND"
UB_TAG == "UPPER_BOUND"
OBJ_TAG == "OBJECTIVE_COEFFICIENT"

DEFAULT_LOWER_BOUND_ID == "cobra_default_lb"
DEFAULT_UPPER_BOUND_ID == "cobra_default_ub"
DEFAULT_ZERO_BOUND_ID == "cobra_0_bound"

DEFAULT_LOWER_BOUND == -1000
DEFAULT_UPPER_BOUND == 1000

(***************************************************************************)
(* Bounds of the model.                                                    *)
(***************************************************************************)
MaxVal == 1      \* explicit bounds inside the sentinels range over -MaxVal..MaxVal
MaxCoeff == 1    \* objective coefficients range over 0..MaxCoeff

\* Python's None, and an optional value v, as sequences of length 0 and 1.
None == <<>>
Some(v) == <<v>>
IsNone(x) == x = <<>>
Val(x) == x[1]

\* Reaction ids of the model, in the order of model.reactions (an OrderedDict).
ReactionIds == <<"R1", "R2">>
Reactions == {ReactionIds[i] : i \in 1..Len(ReactionIds)}

\* A flavor that is neither of the two recognised ones (None, a typo, 'fbc1').
OTHER_FLAVOR == "fbc1"
Flavors == {COBRA_MODEL, FBC2_MODEL, OTHER_FLAVOR}

\* Bound values a caller may set: unset, at and beyond the sentinels, inside.
BoundValues ==
    {None} \cup {Some(v) : v \in (0 - MaxVal)..MaxVal}
           \cup {Some(DEFAULT_LOWER_BOUND - 1), Some(DEFAULT_LOWER_BOUND),
                 Some(DEFAULT_UPPER_BOUND), Some(DEFAULT_UPPER_BOUND + 1)}
CoeffValues == 0..MaxCoeff

(***************************************************************************)
(* The document.                                                           *)
(***************************************************************************)
\* A parameter element: createParameter(); setId(id); setValue(value).
Parameter(id, value) == [id |-> id, value |-> value]

\* The document after createModel and _save_reactions: no model-wide
\* parameter, no kinetic law, no flux bound reference, no objective.
EmptyDocument ==
    [ parameters     |-> <<>>,
      kineticLaw     |-> [r \in Reactions |-> None],
      fluxBounds     |-> [r \in Reactions |-> [lower |-> "", upper |-> ""]],
      fbc            |-> FALSE,
      fluxObjectives |-> <<>> ]

(***************************************************************************)
(* Save of bounds and objective (sbml.py:466-563).                         *)
(***************************************************************************)
\* Mutant of CobraKineticLaw: the default bounds are never materialised.
CobraKineticLaw_NoDefaults(lb0, ub0, coeff, set_default_bounds) ==
    (IF ~IsNone(lb0) THEN <<Parameter(LB_TAG, Val(lb0))>> ELSE <<>>)
    \o (IF ~IsNone(ub0) THEN <<Parameter(UB_TAG, Val(ub0))>> ELSE <<>>)
    \o <<Parameter(OBJ_TAG, coeff)>>

\* _save_cobra_parameters, one reaction: the parameters of its kinetic law.
CobraKineticLaw(lb0, ub0, coeff, set_default_bounds) ==
    LET lb == IF set_default_bounds /\ IsNone(lb0)
               THEN Some(DEFAULT_LOWER_BOUND) ELSE lb0
        ub == IF set_default_bounds /\ IsNone(ub0)
               THEN Some(DEFAULT_UPPER_BOUND) ELSE ub0
    IN  (IF ~IsNone(lb) THEN <<Parameter(LB_TAG, Val(lb))>> ELSE <<>>)
        \o (IF ~IsNone(ub) THEN <<Parameter(UB_TAG, Val(ub))>> ELSE <<>>)
        \o <<Parameter(OBJ_TAG, coeff)>>

\* _save_cobra_parameters: every reaction gets a kinetic law.
_save_cobra_parameters(b, obj, doc, set_default_bounds) ==
    [doc EXCEPT !.kineticLaw =
        [r \in Reactions |->
            Some(CobraKineticLaw(b[r][1], b[r][2], obj[r], set_default_bounds))]]

\* Mutant of LowerFluxBoundId: the new parameter's id leaves out the reaction.
LowerFluxBoundId_Unscoped(r_id, lb) ==
    IF IsNone(lb) \/ Val(lb) <= DEFAULT_LOWER_BOUND THEN DEFAULT_LOWER_BOUND_ID
    ELSE IF Val(lb) = 0 THEN DEFAULT_ZERO_BOUND_ID
    ELSE "_lower_bound"

\* The parameter _save_fbc_fluxbounds makes the lower bound of r_id reference.
LowerFluxBoundId(r_id, lb) ==
    IF IsNone(lb) \/ Val(lb) <= DEFAULT_LOWER_BOUND THEN DEFAULT_LOWER_BOUND_ID
    ELSE IF Val(lb) = 0 THEN DEFAULT_ZERO_BOUND_ID
    ELSE r_id \o "_lower_bound"

\* The parameter _save_fbc_fluxbounds makes the upper bound of r_id reference;
\* the second test of the code reads lb, not ub (sbml.py:546).
UpperFluxBoundId(r_id, lb, ub) ==
    IF IsNone(ub) \/ Val(ub) >= DEFAULT_UPPER_BOUND THEN DEFAULT_UPPER_BOUND_ID
    ELSE IF ~IsNone(lb) /\ Val(lb) = 0 THEN DEFAULT_ZERO_BOUND_ID
    ELSE r_id \o "_upper_bound"

SharedParameterIds ==
    {DEFAULT_LOWER_BOUND_ID, DEFAULT_UPPER_BOUND_ID, DEFAULT_ZERO_BOUND_ID}

\* One iteration of the loop of _save_fbc_fluxbounds: a reaction-scoped
\* parameter is created in exactly the branches that reference one.
SaveFbcReaction(doc, r_id, lb, ub) ==
    LET lb_id == LowerFluxBoundId(r_id, lb)
        ub_id == UpperFluxBoundId(r_id, lb, ub)
        lb_param == IF lb_id \in SharedParameterIds THEN <<>>
                    ELSE <<Parameter(lb_id, Val(lb))>>
        ub_param == IF ub_id \in SharedParameterIds THEN <<>>
                    ELSE <<Parameter(ub_id, Val(ub))>>
    IN  [doc EXCEPT !.parameters = @ \o lb_param \o ub_param,
                    !.fluxBounds[r_id] = [lower |-> lb_id, upper |-> ub_id]]

RECURSIVE SaveFbcReactions(_, _, _)
SaveFbcReactions(b, doc, i) ==
    IF i > Len(ReactionIds) THEN doc
    ELSE LET r_id == ReactionIds[i]
         IN  SaveFbcReactions(b, SaveFbcReaction(doc, r_id, b[r_id][1], b[r_id][2]), i + 1)

\* _save_fbc_fluxbounds: the three shared parameters, then the reactions.
_save_fbc_fluxbounds(b, doc) ==
    SaveFbcReactions(b,
        [doc EXCEPT !.parameters = @ \o
            << Parameter(DEFAULT_LOWER_BOUND_ID, DEFAULT_LOWER_BOUND),
               Parameter(DEFAULT_UPPER_BOUND_ID, DEFAULT_UPPER_BOUND),
               Parameter(DEFAULT_ZERO_BOUND_ID, 0) >>],
        1)

\* _save_fbc_objective: a flux objective for every non-zero coefficient.
RECURSIVE FluxObjectives(_, _)
FluxObjectives(obj, i) ==
    IF i > Len(ReactionIds) THEN <<>>
    ELSE LET r_id == ReactionIds[i]
         IN  (IF obj[r_id] # 0
              THEN <<[reaction |-> r_id, coefficient |-> obj[r_id]]>> ELSE <<>>)
             \o FluxObjectives(obj, i + 1)

_save_fbc_objective(obj, doc) ==
    [doc EXCEPT !.fluxObjectives = FluxObjectives(obj, 1)]

\* save_sbml_model enables the fbc package only for the fbc2 flavor (399-400).
EnableFbc(doc, flv) == [doc EXCEPT !.fbc = (flv = FBC2_MODEL)]

\* _save_cb_parameters: the dispatch on the flavor; any other flavor falls
\* through to the cobra writer without default bounds.
_save_cb_parameters(b, obj, doc, flv) ==
    IF flv = COBRA_MODEL THEN _save_cobra_parameters(b, obj, doc, TRUE)
    ELSE IF flv = FBC2_MODEL
         THEN _save_fbc_objective(obj, _save_fbc_fluxbounds(b, doc))
    ELSE _save_cobra_parameters(b, obj, doc, FALSE)

(***************************************************************************)
(* Load of bounds and objective (sbml.py:158-200, 273-292).                *)
(***************************************************************************)
\* kinetic_law.getParameter(tag): the first parameter with that id, or None.
RECURSIVE GetParameter(_, _)
GetParameter(params, tag) ==
    IF params = <<>> THEN None
    ELSE IF Head(params).id = tag THEN Some(Head(params).value)
    ELSE GetParameter(Tail(params), tag)

\* Mutant of _get_cb_parameter: a missing parameter reads as 0, whatever the
\* default.
_get_cb_parameter_ZeroDefault(doc, r_id, tag, default_value) ==
    LET kinetic_law == doc.kineticLaw[r_id]
    IN  IF IsNone(kinetic_law) THEN Some(0)
        ELSE LET parameter == GetParameter(Val(kinetic_law), tag)
             IN  IF IsNone(parameter) THEN Some(0) ELSE parameter

\* _get_cb_parameter: the value of the parameter, default_value when the
\* reaction has no kinetic law or the law has no such parameter.
_get_cb_parameter(doc, r_id, tag, default_value) ==
    LET kinetic_law == doc.kineticLaw[r_id]
    IN  IF IsNone(kinetic_law) THEN default_value
        ELSE LET parameter == GetParameter(Val(kinetic_law), tag)
             IN  IF IsNone(parameter) THEN default_value ELSE parameter

_load_cobra_bounds(doc) ==
    [r \in Reactions |-> << _get_cb_parameter(doc, r, LB_TAG, None),
                            _get_cb_parameter(doc, r, UB_TAG, None) >>]

\* Mutant of _load_cobra_objective: the test `if coeff` is missing.
_load_cobra_objective_Unfiltered(doc) ==
    [r \in Reactions |-> Val(_get_cb_parameter(doc, r, OBJ_TAG, Some(0)))]

\* _load_cobra_objective: only non-zero coefficients enter the objective.
_load_cobra_objective(doc) ==
    LET coeff(r) == Val(_get_cb_parameter(doc, r, OBJ_TAG, Some(0)))
    IN  [r \in {q \in Reactions : coeff(q) # 0} |-> coeff(r)]

\* params = {param.getId(): param.getValue() ...}: a later parameter with the
\* same id replaces an earlier one; a missing id is a KeyError (None here).
RECURSIVE ParamLookup(_, _)
ParamLookup(params, id) ==
    IF params = <<>> THEN None
    ELSE IF params[Len(params)].id = id THEN Some(params[Len(params)].value)
    ELSE ParamLookup(SubSeq(params, 1, Len(params) - 1), id)

\* _load_fbc2_bounds: both references of every reaction are resolved against
\* the model-wide parameter table.
Fbc2BoundsResolved(doc) ==
    \A r \in Reactions :
        /\ ~IsNone(ParamLookup(doc.parameters, doc.fluxBounds[r].lower))
        /\ ~IsNone(ParamLookup(doc.parameters, doc.fluxBounds[r].upper))

_load_fbc2_bounds(doc) ==
    [r \in Reactions |->
        << ParamLookup(doc.parameters, doc.fluxBounds[r].lower),
           ParamLookup(doc.parameters, doc.fluxBounds[r].upper) >>]

\* _load_fbc2_objective: the flux objectives with a non-zero coefficient.
_load_fbc2_objective(doc) ==
    LET fos == doc.fluxObjectives
        idx(r) == CHOOSE i \in 1..Len(fos) :
                      /\ fos[i].reaction = r
                      /\ \A j \in (i + 1)..Len(fos) : fos[j].reaction # r
    IN  [r \in {fos[i].reaction : i \in {j \in 1..Len(fos) : fos[j].coefficient # 0}}
            |-> fos[idx(r)].coefficient]

\* What a load hands back: the exception raised ("" when it returns), and
\* the bounds and objective it set on the model (None: never set).
NotLoaded == [raised |-> "", returned |-> FALSE, bounds |-> None, objective |-> None]

\* _load_cbmodel: the dispatch on the flavor; for any other flavor a message
\* is printed and the model is returned with no bounds and no objective set.
\* Under fbc2, a reaction without the fbc plugin (getPlugin gives None) is
\* an AttributeError and an unknown parameter id a KeyError.
_load_cbmodel(doc, flv) ==
    IF flv = COBRA_MODEL
    THEN [raised |-> "", returned |-> TRUE,
          bounds |-> Some(_load_cobra_bounds(doc)),
          objective |-> Some(_load_cobra_objective(doc))]
    ELSE IF flv = FBC2_MODEL
    THEN IF ~doc.fbc
         THEN [raised |-> "AttributeError", returned |-> FALSE,
               bounds |-> None, objective |-> None]
         ELSE IF Fbc2BoundsResolved(doc)
         THEN [raised |-> "", returned |-> TRUE,
               bounds |-> Some(_load_fbc2_bounds(doc)),
               objective |-> Some(_load_fbc2_objective(doc))]
         ELSE [raised |-> "KeyError", returned |-> FALSE,
               bounds |-> None, objective |-> None]
    ELSE [raised |-> "", returned |-> TRUE, bounds |-> None, objective |-> None]

(***************************************************************************)
(* Text.  A Python string is the sequence of its characters.               *)
(***************************************************************************)
s_SOURCE == <<"S", "O", "U", "R", "C", "E">>
s_NOTE == <<"N", "O", "T", "E">>
s_KEGG == <<"K", "E", "G", "G">>
s_approx == <<"a", "p", "p", "r", "o", "x">>
s_value == <<"v", "a", "l", "u", "e">>

\* str.strip(): leading and trailing whitespace removed.
RECURSIVE LStrip(_)
LStrip(str) ==
    IF str # <<>> /\ Head(str) = " " THEN LStrip(Tail(str)) ELSE str

RECURSIVE RStrip(_)
RStrip(str) ==
    IF str # <<>> /\ str[Len(str)] = " "
    THEN RStrip(SubSeq(str, 1, Len(str) - 1)) ELSE str

Strip(str) == RStrip(LStrip(str))

\* c in str
Contains(str, c) == \E i \in 1..Len(str) : str[i] = c

\* str.split(c, 1) for a string that contains c: the text before the first
\* c and all the text after it.
SplitOnce(str, c) ==
    LET i == CHOOSE k \in 1..Len(str) :
                 str[k] = c /\ \A j \in 1..(k - 1) : str[j] # c
    IN  << SubSeq(str, 1, i - 1), SubSeq(str, i + 1, Len(str)) >>

\* str.split(): the maximal runs of non-whitespace characters, in order.
RECURSIVE SplitWords(_, _)
SplitWords(str, word) ==
    IF str = <<>> THEN (IF word = <<>> THEN <<>> ELSE <<word>>)
    ELSE IF Head(str) = " "
         THEN (IF word = <<>> THEN <<>> ELSE <<word>>) \o SplitWords(Tail(str), <<>>)
         ELSE SplitWords(Tail(str), Append(word, Head(str)))

Split(str) == SplitWords(str, <<>>)

\* sep.join(words)
RECURSIVE Join(_, _)
Join(sep, words) ==
    IF words = <<>> THEN <<>>
    ELSE IF Len(words) = 1 THEN words[1]
    ELSE words[1] \o sep \o Join(sep, Tail(words))

(***************************************************************************)
(* Metadata codec (sbml.py:631-650).  An annotation map is an OrderedDict: *)
(* a sequence of <<key, value>> pairs with distinct keys.  The notes of an *)
(* element are None or the texts of the <p> children of its <html> node.   *)
(***************************************************************************)
Keys(metadata) == {metadata[i][1] : i \in 1..Len(metadata)}

\* metadata[key]
DictGet(metadata, key) ==
    metadata[CHOOSE i \in 1..Len(metadata) : metadata[i][1] = key][2]

\* metadata[key] = value: in place for a key already there, else appended.
DictSet(metadata, key, value) ==
    IF key \in Keys(metadata)
    THEN [i \in 1..Len(metadata) |->
             IF metadata[i][1] = key THEN <<key, value>> ELSE metadata[i]]
    ELSE Append(metadata, <<key, value>>)

\* '<p>{}: {}</p>'.format(key, value): the text of one paragraph.
NoteText(key, value) == key \o <<":", " ">> \o value

\* _save_metadata: no notes for an empty map, else one paragraph per entry.
_save_metadata(metadata) ==
    IF metadata = <<>> THEN None
    ELSE Some([i \in 1..Len(metadata) |-> NoteText(metadata[i][1], metadata[i][2])])

\* Mutant of DecodeNote: the value is cut at the next colon.
DecodeNote_CutValue(metadata, note_str) ==
    IF Contains(note_str, ":")
    THEN LET kv == SplitOnce(note_str, ":")
             value == IF Contains(kv[2], ":") THEN SplitOnce(kv[2], ":")[1] ELSE kv[2]
         IN  DictSet(metadata, Strip(kv[1]), Strip(value))
    ELSE metadata

\* _load_metadata, one paragraph: split once at the first colon, strip both
\* sides; a paragraph without a colon adds nothing.
DecodeNote(metadata, note_str) ==
    IF Contains(note_str, ":")
    THEN LET kv == SplitOnce(note_str, ":")
         IN  DictSet(metadata, Strip(kv[1]), Strip(kv[2]))
    ELSE metadata

RECURSIVE DecodeNotes(_, _)
DecodeNotes(metadata, paragraphs) ==
    IF paragraphs = <<>> THEN metadata
    ELSE DecodeNotes(DecodeNote(metadata, Head(paragraphs)), Tail(paragraphs))

\* _load_metadata: the annotations of the notes, added to elem.metadata.
_load_metadata(notes, metadata) ==
    IF IsNone(notes) THEN metadata ELSE DecodeNotes(metadata, Val(notes))

(***************************************************************************)
(* parse_gpr_rule (sbml.py:224-270).  sympy expressions are modelled as    *)
(* sympy builds them: And and Or keep their arguments as a set (nested     *)
(* operators of the same kind flattened, duplicates dropped, one argument  *)
(* left standing for itself) and hand them out in sympy's canonical order. *)
(***************************************************************************)
\* rule.replace('(', '( ').replace(')', ' )')
RECURSIVE PadParens(_)
PadParens(rule) ==
    IF rule = <<>> THEN <<>>
    ELSE (IF Head(rule) = "(" THEN <<"(", " ">>
          ELSE IF Head(rule) = ")" THEN <<" ", ")">>
          ELSE <<Head(rule)>>)
         \o PadParens(Tail(rule))

\* token.replace('-', '_')
HyphensToUnderscores(token) ==
    [i \in 1..Len(token) |-> IF token[i] = "-" THEN "_" ELSE token[i]]

\* token.startswith('G_')
StartsWithG(token) == Len(token) >= 2 /\ token[1] = "G" /\ token[2] = "_"

\* replacement(token) (231-241)
replacement(token) ==
    IF token = <<"a", "n", "d">> THEN <<"&">>
    ELSE IF token = <<"o", "r">> THEN <<"|">>
    ELSE IF token = <<"(">> \/ token = <<")">> THEN token
    ELSE IF StartsWithG(token) THEN HyphensToUnderscores(token)
    ELSE <<"G", "_">> \o HyphensToUnderscores(token)

\* ' '.join(map(replacement, rule.split())) on the padded rule (229, 243)
Normalise(rule) ==
    LET tokens == Split(PadParens(rule))
    IN  Join(<<" ">>, [i \in 1..Len(tokens) |-> replacement(tokens[i])])

Symbol(name) == [op |-> "Symbol", name |-> name, args |-> {}]
NoExpr == [op |-> "None", name |-> <<>>, args |-> {}]

\* And(*args) / Or(*args) of sympy (LatticeOp.__new__).
MkOp(op, args) ==
    LET flat == UNION {IF a.op = op THEN a.args ELSE {a} : a \in args}
    IN  IF Cardinality(flat) = 1 THEN CHOOSE a \in flat : TRUE
        ELSE [op |-> op, name |-> <<>>, args |-> flat]

\* parse_expr on the normalised rule: Python's grammar for &, | and
\* parentheses over names; & binds tighter than |, both associate to the left.
Parsed(expr, rest) == [ok |-> TRUE, expr |-> expr, rest |-> rest]
Unparsed == [ok |-> FALSE, expr |-> NoExpr, rest |-> <<>>]

RECURSIVE ParseOr(_)
RECURSIVE ParseOrRest(_, _)
RECURSIVE ParseAnd(_)
RECURSIVE ParseAndRest(_, _)
RECURSIVE ParseFactor(_)

ParseFactor(toks) ==
    IF toks = <<>> THEN Unparsed
    ELSE IF Head(toks) = <<"(">>
         THEN LET inner == ParseOr(Tail(toks))
              IN  IF inner.ok /\ inner.rest # <<>> /\ Head(inner.rest) = <<")">>
                  THEN Parsed(inner.expr, Tail(inner.rest))
                  ELSE Unparsed
    ELSE IF Head(toks) \in {<<")">>, <<"&">>, <<"|">>} THEN Unparsed
    ELSE Parsed(Symbol(Head(toks)), Tail(toks))

ParseAndRest(acc, toks) ==
    IF toks # <<>> /\ Head(toks) = <<"&">>
    THEN LET next == ParseFactor(Tail(toks))
         IN  IF next.ok THEN ParseAndRest(MkOp("And", {acc, next.expr}), next.rest)
             ELSE Unparsed
    ELSE Parsed(acc, toks)

ParseAnd(toks) ==
    LET first == ParseFactor(toks)
    IN  IF first.ok THEN ParseAndRest(first.expr, first.rest) ELSE Unparsed

ParseOrRest(acc, toks) ==
    IF toks # <<>> /\ Head(toks) = <<"|">>
    THEN LET next == ParseAnd(Tail(toks))
         IN  IF next.ok THEN ParseOrRest(MkOp("Or", {acc, next.expr}), next.rest)
             ELSE Unparsed
    ELSE Parsed(acc, toks)

ParseOr(toks) ==
    LET first == ParseAnd(toks)
    IN  IF first.ok THEN ParseOrRest(first.expr, first.rest) ELSE Unparsed

parse_expr(str) ==
    LET got == ParseOr(Split(str))
    IN  IF got.ok /\ got.rest = <<>> THEN got ELSE Unparsed

\* is_dnf(expr): an atom, an And of atoms, or an Or of atoms and Ands of
\* atoms.
IsAtom(e) == e.op = "Symbol"
is_dnf(e) ==
    \/ IsAtom(e)
    \/ e.op = "And" /\ \A lit \in e.args : IsAtom(lit)
    \/ e.op = "Or" /\ \A cls \in e.args :
           IsAtom(cls) \/ (cls.op = "And" /\ \A lit \in cls.args : IsAtom(lit))

\* Mutant of distribute_or_over_and: an And is never distributed.
RECURSIVE distribute_NoAnd(_)
distribute_NoAnd(e) ==
    IF e.op = "Or" THEN MkOp("Or", {distribute_NoAnd(x) : x \in e.args}) ELSE e

\* to_dnf(expr) = distribute_or_over_and(expr): an And with an Or among its
\* arguments becomes the Or of the Ands of each alternative with the rest.
RECURSIVE distribute_or_over_and(_)
distribute_or_over_and(e) ==
    IF e.op = "And"
    THEN IF \E a \in e.args : a.op = "Or"
         THEN LET conj == CHOOSE a \in e.args : a.op = "Or"
                  rest == MkOp("And", e.args \ {conj})
              IN  MkOp("Or", {distribute_or_over_and(MkOp("And", {c, rest})) :
                                  c \in conj.args})
         ELSE e
    ELSE IF e.op = "Or"
    THEN MkOp("Or", {distribute_or_over_and(x) : x \in e.args})
    ELSE e

to_dnf(e) == IF is_dnf(e) THEN e ELSE distribute_or_over_and(e)

\* The characters of identifiers, in the order Python compares them.
CharOrder ==
    << "0", "1", "2", "3", "4", "5", "6", "7", "8", "9", "G", "_", "a", "b", "x" >>
CharRank(c) == CHOOSE i \in 1..Len(CharOrder) : CharOrder[i] = c

\* a < b for two Python strings.
RECURSIVE StrLess(_, _)
StrLess(a, b) ==
    IF b = <<>> THEN FALSE
    ELSE IF a = <<>> THEN TRUE
    ELSE IF Head(a) = Head(b) THEN StrLess(Tail(a), Tail(b))
    ELSE CharRank(Head(a)) < CharRank(Head(b))

\* expr.args of an And / Or: ordered(argset), by sympy's default_sort_key:
\* symbols (by name) before Ands before Ors, operators of one kind by their
\* number of arguments and then by their ordered arguments.
ClassRank(e) == IF e.op = "Symbol" THEN 0 ELSE IF e.op = "And" THEN 1 ELSE 2

RECURSIVE ExprLess(_, _)
RECURSIVE SeqLess(_, _)
RECURSIVE Args(_)

ExprLess(e1, e2) ==
    IF ClassRank(e1) # ClassRank(e2) THEN ClassRank(e1) < ClassRank(e2)
    ELSE IF e1.op = "Symbol" THEN StrLess(e1.name, e2.name)
    ELSE IF Cardinality(e1.args) # Cardinality(e2.args)
         THEN Cardinality(e1.args) < Cardinality(e2.args)
    ELSE SeqLess(Args(e1), Args(e2))

SeqLess(a, b) ==
    IF a = <<>> \/ b = <<>> THEN FALSE
    ELSE IF Head(a) = Head(b) THEN SeqLess(Tail(a), Tail(b))
    ELSE ExprLess(Head(a), Head(b))

RECURSIVE Ordered(_)
Ordered(S) ==
    IF S = {} THEN <<>>
    ELSE LET least == CHOOSE x \in S : \A y \in S \ {x} : ExprLess(x, y)
         IN  <<least>> \o Ordered(S \ {least})

Args(e) == Ordered(e.args)

\* str(expr): a symbol prints as its name, an operator as its arguments in
\* order, joined by its sign, compound arguments in parentheses.
RECURSIVE StrOf(_)
StrOf(e) ==
    IF e.op = "Symbol" THEN e.name
    ELSE LET sign == IF e.op = "And" THEN <<" ", "&", " ">> ELSE <<" ", "|", " ">>
             args == Args(e)
         IN  Join(sign, [i \in 1..Len(args) |->
                             IF IsAtom(args[i]) THEN StrOf(args[i])
                             ELSE <<"(">> \o StrOf(args[i]) \o <<")">>])

\* protein.genes = [str(gene) for gene in sub_expr.args], or [str(sub_expr)]
ProteinOf(sub_expr) ==
    IF sub_expr.op = "And"
    THEN LET genes == Args(sub_expr) IN [i \in 1..Len(genes) |-> StrOf(genes[i])]
    ELSE <<StrOf(sub_expr)>>

\* The proteins of the GPRAssociation built from the DNF (250-267).
ProteinsOf(expr) ==
    IF expr.op = "Or"
    THEN LET subs == Args(expr) IN [i \in 1..Len(subs) |-> ProteinOf(subs[i])]
    ELSE <<ProteinOf(expr)>>

\* parse_gpr_rule(rule): None for an empty rule; an exception of parse_expr
\* leaves the function; else the GPRAssociation, as its list of proteins.
parse_gpr_rule(rule) ==
    IF rule = <<>> THEN [raised |-> "", gpr |-> None]
    ELSE LET got == parse_expr(Normalise(rule))
         IN  IF ~got.ok THEN [raised |-> "SyntaxError", gpr |-> None]
             ELSE [raised |-> "", gpr |-> Some(ProteinsOf(to_dnf(got.expr)))]

(***************************************************************************)
(* The GPR association of one reaction in the two dialects. A              *)
(* GPRAssociation is its list of proteins, a protein its list of genes.    *)
(* The fbc association of a reaction is a tree of FbcOr / FbcAnd /         *)
(* GeneProductRef nodes; "assoc" is a bare FbcAssociation, NoAssociation   *)
(* what getAssociation() returns when nothing was set.                     *)
(***************************************************************************)
RefNode(gene) == [kind |-> "ref", gene |-> gene, kids |-> <<>>]
AndNode(kids) == [kind |-> "and", gene |-> <<>>, kids |-> kids]
OrNode(kids) == [kind |-> "or", gene |-> <<>>, kids |-> kids]
BareNode == [kind |-> "assoc", gene |-> <<>>, kids |-> <<>>]
NoAssociation == [kind |-> "None", gene |-> <<>>, kids |-> <<>>]

RECURSIVE Concat(_)
Concat(seqs) == IF seqs = <<>> THEN <<>> ELSE Head(seqs) \o Concat(Tail(seqs))

\* str(protein), str(gpr): genes joined by ' and ', in parentheses when more
\* than one; proteins joined by ' or ', in parentheses when more than one.
ProteinToString(protein) ==
    LET protein_str == Join(<<" ", "a", "n", "d", " ">>, protein)
    IN  IF Len(protein) > 1 THEN <<"(">> \o protein_str \o <<")">> ELSE protein_str

GprToString(proteins) ==
    LET gpr_str == Join(<<" ", "o", "r", " ">>,
                        [i \in 1..Len(proteins) |-> ProteinToString(proteins[i])])
    IN  IF Len(proteins) > 1 THEN <<"(">> \o gpr_str \o <<")">> ELSE gpr_str

\* _save_cobra_gprs, for one reaction: the value put under GENE_ASSOCIATION,
\* None when the reaction has no GPR.
_save_cobra_gprs(gpr) == IF IsNone(gpr) THEN None ELSE Some(GprToString(Val(gpr)))

\* _load_cobra_gpr, for one reaction: rule = metadata.pop(GPR_TAG, None).
_load_cobra_gpr(rule) ==
    IF IsNone(rule) \/ Val(rule) = <<>>
    THEN [raised |-> "", gpr |-> None, printed |-> FALSE]
    ELSE LET parsed == parse_gpr_rule(Val(rule))
         IN  [raised |-> parsed.raised, gpr |-> parsed.gpr, printed |-> FALSE]

\* The nodes one protein adds under gpr_assoc (581-589): an FbcAnd of its
\* gene references when it has more than one gene, else its references
\* themselves.
RefsOf(genes) == [j \in 1..Len(genes) |-> RefNode(genes[j])]
ProteinAssociations(protein) ==
    IF Len(protein) > 1 THEN <<AndNode(RefsOf(protein))>> ELSE RefsOf(protein)

\* _save_fbc_gprs, for one reaction (573-589): no GeneProductAssociation
\* without a GPR; an FbcOr only for more than one protein; without one the
\* nodes are set on the GeneProductAssociation itself, which holds one.
_save_fbc_gprs(gpr) ==
    IF IsNone(gpr) THEN [present |-> FALSE, association |-> NoAssociation]
    ELSE LET proteins == Val(gpr)
             made == Concat([i \in 1..Len(proteins) |-> ProteinAssociations(proteins[i])])
         IN  [present |-> TRUE,
              association |->
                  IF Len(proteins) > 1 THEN OrNode(made)
                  ELSE IF made = <<>> THEN NoAssociation
                  ELSE made[Len(made)]]

\* The genes of the GeneProductRef items, in order; the other items only
\* print 'Gene association is not DNF'.
RECURSIVE RefGenes(_)
RefGenes(items) ==
    IF items = <<>> THEN <<>>
    ELSE (IF Head(items).kind = "ref" THEN <<Head(items).gene>> ELSE <<>>)
         \o RefGenes(Tail(items))

NotAllRefs(items) == \E i \in 1..Len(items) : items[i].kind # "ref"

FbcParsed(proteins, printed) == [raised |-> "", gpr |-> Some(proteins), printed |-> printed]
FbcRaised(exception) == [raised |-> exception, gpr |-> None, printed |-> FALSE]

\* Mutant of _parse_fbc_association: a gene reference directly under the
\* FbcOr gives a protein without genes.
_parse_fbc_association_NoBareRef(gpr_assoc) ==
    IF gpr_assoc.kind = "or"
    THEN FbcParsed([i \in 1..Len(gpr_assoc.kids) |-> RefGenes(gpr_assoc.kids[i].kids)], FALSE)
    ELSE IF gpr_assoc.kind = "and" THEN FbcParsed(<<RefGenes(gpr_assoc.kids)>>, FALSE)
    ELSE FbcParsed(<<<<gpr_assoc.gene>>>>, FALSE)

\* Mutant of _parse_fbc_association: the items of an FbcOr all end up in one
\* protein.
_parse_fbc_association_OneProtein(gpr_assoc) ==
    IF gpr_assoc.kind = "or"
    THEN FbcParsed(<<Concat([i \in 1..Len(gpr_assoc.kids) |->
                        IF gpr_assoc.kids[i].kind = "and"
                        THEN RefGenes(gpr_assoc.kids[i].kids)
                        ELSE <<gpr_assoc.kids[i].gene>>])>>, FALSE)
    ELSE IF gpr_assoc.kind = "and" THEN FbcParsed(<<RefGenes(gpr_assoc.kids)>>, FALSE)
    ELSE FbcParsed(<<<<gpr_assoc.gene>>>>, FALSE)

\* _parse_fbc_association(gpr_assoc) (311-345). Under an FbcOr an item that
\* is not an FbcAnd takes the branch of 'elif item.isGeneProductRef' (the
\* method itself, always true), where getGeneProduct() exists only on a
\* GeneProductRef; None has no isFbcOr().
_parse_fbc_association(gpr_assoc) ==
    IF gpr_assoc.kind = "None" THEN FbcRaised("AttributeError")
    ELSE IF gpr_assoc.kind = "or"
    THEN LET items == gpr_assoc.kids
         IN  IF \E i \in 1..Len(items) : items[i].kind \notin {"and", "ref"}
             THEN FbcRaised("AttributeError")
             ELSE FbcParsed([i \in 1..Len(items) |->
                                IF items[i].kind = "and" THEN RefGenes(items[i].kids)
                                ELSE <<items[i].gene>>],
                            \E i \in 1..Len(items) :
                                items[i].kind = "and" /\ NotAllRefs(items[i].kids))
    ELSE IF gpr_assoc.kind = "and"
    THEN FbcParsed(<<RefGenes(gpr_assoc.kids)>>, NotAllRefs(gpr_assoc.kids))
    ELSE IF gpr_assoc.kind = "ref"
    THEN FbcParsed(<<<<gpr_assoc.gene>>>>, FALSE)
    ELSE FbcParsed(<<>>, TRUE)

\* _load_fbc2_gpr, for one reaction (301-308).
_load_fbc2_gpr(fbcrxn) ==
    IF fbcrxn.present THEN _parse_fbc_association(fbcrxn.association)
    ELSE [raised |-> "", gpr |-> None, printed |-> FALSE]

(***************************************************************************)
(* Legacy (cobra) dialect, whole model: the GPR of a reaction travels in   *)
(* its notes under GENE_ASSOCIATION (sbml.py:203-221, 507-513).            *)
(***************************************************************************)
GPR_TAG == <<"G", "E", "N", "E", "_", "A", "S", "S", "O", "C", "I", "A", "T", "I", "O", "N">>

\* metadata.pop(key, None): the map without the key.
DictPop(metadata, key) == SelectSeq(metadata, LAMBDA kv : kv[1] # key)

\* The document after createModel: no notes, no kinetic law.
EmptyLegacyDocument ==
    [kineticLaw |-> [r \in Reactions |-> None], notes |-> [r \in Reactions |-> None]]

\* _save_reactions: _save_metadata(reaction, sbml_reaction) for every
\* reaction (446).
_save_reactions(model, doc) ==
    [doc EXCEPT !.notes = [r \in Reactions |-> _save_metadata(model.metadata[r])]]

\* _save_cobra_gprs, the model side: reaction.metadata[GPR_TAG] = str(gpr)
\* for every reaction with a GPR (509-511).
TagGprs(model) ==
    [model EXCEPT !.metadata =
        [r \in Reactions |->
            LET rule == _save_cobra_gprs(model.gprs[r])
            IN  IF IsNone(rule) THEN model.metadata[r]
                ELSE DictSet(model.metadata[r], GPR_TAG, Val(rule))]]

\* _save_cobra_gprs, the document side: the notes of every reaction with a
\* GPR are encoded again from its metadata (512-513).
RewriteNotes(model, doc) ==
    [doc EXCEPT !.notes =
        [r \in Reactions |->
            IF IsNone(model.gprs[r]) THEN doc.notes[r]
            ELSE _save_metadata(TagGprs(model).metadata[r])]]

\* _load_reactions: the metadata of every reaction, decoded from its notes
\* (154).
_load_reactions(doc) == [r \in Reactions |-> _load_metadata(doc.notes[r], <<>>)]

\* rule = model.reactions[r].metadata.pop(GPR_TAG, None) (208)
PoppedRule(metadata) ==
    IF GPR_TAG \in Keys(metadata) THEN Some(DictGet(metadata, GPR_TAG)) ELSE None

\* Mutant of _load_cobra_model: the rule is read with get, not pop.
_load_cobra_model_NoPop(doc) ==
    LET decoded == _load_reactions(doc)
        parsed == [r \in Reactions |-> _load_cobra_gpr(PoppedRule(decoded[r]))]
    IN  [ raised    |-> "",
          returned  |-> TRUE,
          bounds    |-> _load_cobra_bounds(doc),
          objective |-> _load_cobra_objective(doc),
          metadata  |-> decoded,
          gprs      |-> [r \in Reactions |-> parsed[r].gpr],
          genes     |-> UNION {IF IsNone(parsed[r].gpr) THEN {}
                               ELSE UNION {{p[j] : j \in 1..Len(p)} :
                                               p \in {Val(parsed[r].gpr)[i] :
                                                         i \in 1..Len(Val(parsed[r].gpr))}} :
                               r \in Reactions} ]

\* _load_cbmodel(sbml_model, COBRA_MODEL) (158-174): reactions with their
\* metadata, bounds, objective, then _load_cobra_gpr over all reactions; an
\* exception of parse_gpr_rule leaves the load.
_load_cobra_model(doc) ==
    LET decoded == _load_reactions(doc)
        parsed == [r \in Reactions |-> _load_cobra_gpr(PoppedRule(decoded[r]))]
    IN  IF \E r \in Reactions : parsed[r].raised # ""
        THEN [ raised |-> "SyntaxError", returned |-> FALSE, bounds |-> <<>>,
               objective |-> <<>>, metadata |-> <<>>, gprs |-> <<>>, genes |-> {} ]
        ELSE [ raised    |-> "",
               returned  |-> TRUE,
               bounds    |-> _load_cobra_bounds(doc),
               objective |-> _load_cobra_objective(doc),
               metadata  |-> [r \in Reactions |-> DictPop(decoded[r], GPR_TAG)],
               gprs      |-> [r \in Reactions |-> parsed[r].gpr],
               genes     |-> UNION {IF IsNone(parsed[r].gpr) THEN {}
                                    ELSE UNION {{p[j] : j \in 1..Len(p)} :
                                                    p \in {Val(parsed[r].gpr)[i] :
                                                              i \in 1..Len(Val(parsed[r].gpr))}} :
                                    r \in Reactions} ]

\* The variables of the other specifications, at rest.
MetadataIdle ==
    /\ elem_metadata = <<>>
    /\ elem_notes = None
    /\ loaded_metadata = <<>>
    /\ md_pc = "idle"

NoResult == [raised |-> "", returned |-> FALSE, value |-> None]

EnsembleIdle ==
    /\ ensemble = None
    /\ rxn_metadata = <<>>
    /\ ens_notes = <<>>
    /\ ens_result = NoResult
    /\ ens_pc = "idle"

LoadIdle ==
    /\ ld_doc = <<>>
    /\ ld_flavor = ""
    /\ ld_pc = "idle"
    /\ ld_trace = <<>>
    /\ ld_result = NotLoaded

CbIdle ==
    /\ bounds = <<>>
    /\ objective = <<>>
    /\ flavor = ""
    /\ sbml = EmptyDocument
    /\ save_raised = ""
    /\ loaded = NotLoaded
    /\ pc = "idle"

GprIdle ==
    /\ rule_expr = <<>>
    /\ rule_spelling = <<>>
    /\ rule_text = <<>>
    /\ gpr_result = [raised |-> "", gpr |-> None]
    /\ gpr_pc = "idle"

AssocIdle ==
    /\ assoc_source = <<>>
    /\ assoc_dialect = ""
    /\ assoc_raw = <<>>
    /\ assoc_result = <<>>
    /\ assoc_pc = "idle"

LegacyIdle ==
    /\ lg_model = <<>>
    /\ lg_before = <<>>
    /\ lg_origin = <<>>
    /\ lg_doc = <<>>
    /\ lg_trace = <<>>
    /\ lg_loaded = <<>>
    /\ lg_pc = "idle"

SimulateIdle ==
    /\ sim_ensemble = <<>>
    /\ sim_constraints = None
    /\ sim_i = 0
    /\ sim_calls = <<>>
    /\ sim_flux = <<>>
    /\ sim_raised = ""
    /\ sim_pc = "idle"

RestOfCb == MetadataIdle /\ EnsembleIdle /\ LoadIdle /\ GprIdle /\ AssocIdle /\ LegacyIdle /\ SimulateIdle
RestOfMd == CbIdle /\ EnsembleIdle /\ LoadIdle /\ GprIdle /\ AssocIdle /\ LegacyIdle /\ SimulateIdle
RestOfEns == CbIdle /\ MetadataIdle /\ LoadIdle /\ GprIdle /\ AssocIdle /\ LegacyIdle /\ SimulateIdle
RestOfLd == CbIdle /\ MetadataIdle /\ EnsembleIdle /\ GprIdle /\ AssocIdle /\ LegacyIdle /\ SimulateIdle
RestOfGpr == CbIdle /\ MetadataIdle /\ EnsembleIdle /\ LoadIdle /\ AssocIdle /\ LegacyIdle /\ SimulateIdle
RestOfAssoc == CbIdle /\ MetadataIdle /\ EnsembleIdle /\ LoadIdle /\ GprIdle /\ LegacyIdle /\ SimulateIdle
RestOfLegacy == CbIdle /\ MetadataIdle /\ EnsembleIdle /\ LoadIdle /\ GprIdle /\ AssocIdle /\ SimulateIdle
RestOfSimulate ==
    CbIdle /\ MetadataIdle /\ EnsembleIdle /\ LoadIdle /\ GprIdle /\ AssocIdle /\ LegacyIdle

(***************************************************************************)
(* Spec: a model is saved with some flavor and loaded back with it.        *)
(***************************************************************************)
Init ==
    /\ bounds \in [Reactions -> BoundValues \X BoundValues]
    /\ objective \in [Reactions -> CoeffValues]
    /\ flavor = ""
    /\ sbml = EmptyDocument
    /\ save_raised = ""
    /\ loaded = NotLoaded
    /\ pc = "model"
    /\ RestOfCb

\* save_cbmodel(model, filename, flavor): the bounds/objective part of
\* save_sbml_model. No branch of it raises.
Save(flv) ==
    /\ pc = "model"
    /\ flavor' = flv
    /\ sbml' = _save_cb_parameters(bounds, objective, EnableFbc(EmptyDocument, flv), flv)
    /\ save_raised' = ""
    /\ pc' = "saved"
    /\ UNCHANGED <<bounds, objective, loaded, notCb>>

\* load_cbmodel(filename, flavor) on the document just written.
Load ==
    /\ pc = "saved"
    /\ loaded' = _load_cbmodel(sbml, flavor)
    /\ pc' = "loaded"
    /\ UNCHANGED <<bounds, objective, flavor, sbml, save_raised, notCb>>

Next == (\E flv \in Flavors : Save(flv)) \/ Load

Spec == Init /\ [][Next]_vars

(***************************************************************************)
(* Properties of the bounds and objective codec, checked under Spec.       *)
(***************************************************************************)
\* A bound strictly between the two sentinels and different from 0.
InsideNonZero(x) ==
    /\ ~IsNone(x)
    /\ DEFAULT_LOWER_BOUND < Val(x)
    /\ Val(x) < DEFAULT_UPPER_BOUND
    /\ Val(x) # 0

\* The ids of the model-wide parameters of a document.
ParameterIds(doc) == {doc.parameters[i].id : i \in 1..Len(doc.parameters)}

ReactionScopedIds(r_id) == {r_id \o "_lower_bound", r_id \o "_upper_bound"}

\* C1: under the fbc2 flavor, a reaction whose two bounds are both strictly
\* between -1000 and 1000 and both different from 0 is loaded back with
\* exactly the (lower, upper) pair it was saved with.
C1_Fbc2BoundsRoundTrip ==
    (pc = "loaded" /\ flavor = FBC2_MODEL) =>
        \A r \in Reactions :
            (InsideNonZero(bounds[r][1]) /\ InsideNonZero(bounds[r][2])) =>
                /\ loaded.returned
                /\ Val(loaded.bounds)[r] = bounds[r]

\* Both reactions carry explicit non-zero bounds, different from each other,
\* and the model went through an fbc2 save and load.
C1_Witness ==
    /\ pc = "loaded"
    /\ flavor = FBC2_MODEL
    /\ bounds["R1"] = <<Some(-1), Some(1)>>
    /\ bounds["R2"] = <<Some(1), Some(-1)>>

\* The parameter the claim C2 expects a lower / an upper bound to reference,
\* chosen from that bound's own value.
ClaimedLowerId(r_id, lb) ==
    IF IsNone(lb) \/ Val(lb) <= DEFAULT_LOWER_BOUND THEN DEFAULT_LOWER_BOUND_ID
    ELSE IF Val(lb) = 0 THEN DEFAULT_ZERO_BOUND_ID
    ELSE r_id \o "_lower_bound"

ClaimedUpperId(r_id, ub) ==
    IF IsNone(ub) \/ Val(ub) >= DEFAULT_UPPER_BOUND THEN DEFAULT_UPPER_BOUND_ID
    ELSE IF Val(ub) = 0 THEN DEFAULT_ZERO_BOUND_ID
    ELSE r_id \o "_upper_bound"

\* C2: the fbc2 save picks the parameter of each bound from that bound's own
\* value, independently for lower and upper: at or beyond the sentinel the
\* shared sentinel parameter, exactly 0 the shared zero parameter, otherwise
\* a new reaction-scoped parameter holding the bound's value.
C2_ParameterChosenPerBound ==
    (pc # "model" /\ flavor = FBC2_MODEL) =>
        \A r \in Reactions :
            LET lb_id == ClaimedLowerId(r, bounds[r][1])
                ub_id == ClaimedUpperId(r, bounds[r][2])
            IN  /\ sbml.fluxBounds[r].lower = lb_id
                /\ sbml.fluxBounds[r].upper = ub_id
                /\ lb_id \notin SharedParameterIds =>
                       ParamLookup(sbml.parameters, lb_id) = bounds[r][1]
                /\ ub_id \notin SharedParameterIds =>
                       ParamLookup(sbml.parameters, ub_id) = bounds[r][2]

\* C3: a reaction with both bounds unset is written, by the cobra flavor
\* (default bounds on), with LOWER_BOUND = -1000 and UPPER_BOUND = 1000; with
\* default bounds off no bound parameter is written for it; by the fbc2 flavor
\* with both references on the shared sentinel parameters and no
\* reaction-scoped parameter in the parameter table.
C3_UnsetBoundsEncoding ==
    pc # "model" =>
        \A r \in Reactions :
            bounds[r] = <<None, None>> =>
                IF flavor = FBC2_MODEL
                THEN /\ sbml.fluxBounds[r] = [lower |-> DEFAULT_LOWER_BOUND_ID,
                                              upper |-> DEFAULT_UPPER_BOUND_ID]
                     /\ ParameterIds(sbml) \cap ReactionScopedIds(r) = {}
                ELSE LET law == Val(sbml.kineticLaw[r])
                     IN  IF flavor = COBRA_MODEL
                         THEN /\ GetParameter(law, LB_TAG) = Some(-1000)
                              /\ GetParameter(law, UB_TAG) = Some(1000)
                         ELSE /\ GetParameter(law, LB_TAG) = None
                              /\ GetParameter(law, UB_TAG) = None

\* A model with one unbounded reaction next to one with explicit bounds has
\* been saved.
C3_Witness ==
    /\ pc = "saved"
    /\ bounds["R1"] = <<None, None>>
    /\ bounds["R2"] = <<Some(-1), Some(1)>>

\* C4: a save or a load with a flavor that is neither 'cobra' nor 'fbc2' ends
\* in UnsupportedFlavorError: the save writes no bound or objective in either
\* dialect and the load returns no model.
C4_UnsupportedFlavorFails ==
    flavor \notin {"", COBRA_MODEL, FBC2_MODEL} =>
        /\ pc \in {"saved", "loaded"} =>
               /\ save_raised = "UnsupportedFlavorError"
               /\ \A r \in Reactions : IsNone(sbml.kineticLaw[r])
        /\ pc = "loaded" =>
               /\ loaded.raised = "UnsupportedFlavorError"
               /\ ~loaded.returned

\* C9 as stated: in both dialects no reaction with coefficient 0 has an
\* objective entry in the written document.
C9_ZeroNeverWritten ==
    (pc # "model" /\ flavor \in {COBRA_MODEL, FBC2_MODEL}) =>
        \A r \in Reactions :
            objective[r] = 0 =>
                /\ \A i \in 1..Len(sbml.fluxObjectives) :
                       sbml.fluxObjectives[i].reaction # r
                /\ ~IsNone(sbml.kineticLaw[r]) =>
                       GetParameter(Val(sbml.kineticLaw[r]), OBJ_TAG) = None

\* C9, amended: the fbc2 flavor writes no flux objective for a coefficient of
\* 0; the cobra writer gives every reaction an OBJECTIVE_COEFFICIENT
\* parameter, 0 included; after a load with either flavor the objective holds
\* exactly the reactions with a non-zero coefficient, with that coefficient.
C9_ZeroCoefficient ==
    /\ (pc # "model" /\ flavor = FBC2_MODEL) =>
           \A r \in Reactions :
               objective[r] = 0 =>
                   \A i \in 1..Len(sbml.fluxObjectives) :
                       sbml.fluxObjectives[i].reaction # r
    /\ (pc # "model" /\ flavor # FBC2_MODEL) =>
           \A r \in Reactions :
               GetParameter(Val(sbml.kineticLaw[r]), OBJ_TAG) = Some(objective[r])
    /\ (pc = "loaded" /\ flavor \in {COBRA_MODEL, FBC2_MODEL}) =>
           Val(loaded.objective) =
               [r \in {q \in Reactions : objective[q] # 0} |-> objective[r]]

\* A model whose objective has one zero and one non-zero coefficient has been
\* saved and loaded.
C9_Witness ==
    /\ pc = "loaded"
    /\ flavor \in {COBRA_MODEL, FBC2_MODEL}
    /\ objective["R1"] = 0
    /\ objective["R2"] = 1

(***************************************************************************)
(* SpecMetadata: an annotation map is encoded into the notes of an element *)
(* and decoded from them into a fresh element.                             *)
(***************************************************************************)
MaxValueLen == 2    \* generated annotation values have at most this many characters

\* Strings over alphabet of length at most n.
RECURSIVE StringsUpTo(_, _)
StringsUpTo(alphabet, n) ==
    IF n = 0 THEN {<<>>}
    ELSE LET shorter == StringsUpTo(alphabet, n - 1)
         IN  shorter \cup {Append(str, c) : str \in shorter, c \in alphabet}

\* Annotation keys and values: the values of the KEGG scenario, and every
\* short text over a letter, the colon and the blank.
MetaKeys == {s_SOURCE, s_NOTE}
MetaValues ==
    {s_KEGG, s_approx \o <<":">> \o s_value} \cup StringsUpTo({"x", ":", " "}, MaxValueLen)

\* The maps with at most two entries, keys distinct.
MetadataMaps ==
    {<<>>}
    \cup {<< <<k, v>> >> : k \in MetaKeys, v \in MetaValues}
    \cup UNION {{<< <<k1, v1>>, <<k2, v2>> >> :
                    k2 \in MetaKeys \ {k1}, v1 \in MetaValues, v2 \in MetaValues} :
                k1 \in MetaKeys}

InitMetadata ==
    /\ elem_metadata \in MetadataMaps
    /\ elem_notes = None
    /\ loaded_metadata = <<>>
    /\ md_pc = "elem"
    /\ RestOfMd

\* _save_metadata(elem, sbml_elem)
SaveMetadata ==
    /\ md_pc = "elem"
    /\ elem_notes' = _save_metadata(elem_metadata)
    /\ md_pc' = "saved"
    /\ UNCHANGED <<elem_metadata, loaded_metadata, notMd>>

\* _load_metadata(sbml_elem, elem) on a new element
LoadMetadata ==
    /\ md_pc = "saved"
    /\ loaded_metadata' = _load_metadata(elem_notes, <<>>)
    /\ md_pc' = "loaded"
    /\ UNCHANGED <<elem_metadata, elem_notes, notMd>>

NextMetadata == SaveMetadata \/ LoadMetadata

SpecMetadata == InitMetadata /\ [][NextMetadata]_vars

KeggScenario == << <<s_SOURCE, s_KEGG>>, <<s_NOTE, s_approx \o <<":">> \o s_value>> >>

\* C8 as stated: {"SOURCE": "KEGG", "NOTE": "approx:value"} encodes and
\* decodes to {"SOURCE": "KEGG", "NOTE": "approx"}, the value being cut at
\* the first colon inside it.
C8_ValueCutAtColon ==
    (md_pc = "loaded" /\ elem_metadata = KeggScenario) =>
        loaded_metadata = << <<s_SOURCE, s_KEGG>>, <<s_NOTE, s_approx>> >>

\* C8, amended: {"SOURCE": "KEGG", "NOTE": "approx:value"} encodes and decodes
\* to itself: a paragraph is split only at its first colon, the one that ends
\* the key, so a colon inside the value stays in the value; every map whose
\* values have no blank at either end decodes to itself.
C8_ValueKeepsColon ==
    md_pc = "loaded" =>
        /\ elem_metadata = KeggScenario =>
               loaded_metadata =
                   << <<s_SOURCE, s_KEGG>>, <<s_NOTE, s_approx \o <<":">> \o s_value>> >>
        /\ (\A i \in 1..Len(elem_metadata) :
                LET v == elem_metadata[i][2]
                IN  v = <<>> \/ (v[1] # " " /\ v[Len(v)] # " "))
           => loaded_metadata = elem_metadata

\* The KEGG scenario has been encoded and decoded.
C8_Witness ==
    /\ md_pc = "loaded"
    /\ elem_metadata = KeggScenario
    /\ Len(loaded_metadata) = 2

(***************************************************************************)
(* Ensemble persistence (ensemble.py:11-22, 51-77).                        *)
(***************************************************************************)
s_ENSEMBLE_STATE ==
    <<"E", "N", "S", "E", "M", "B", "L", "E", "_", "S", "T", "A", "T", "E">>

\* ' '.join(map(str, map(int, states)))
StateAsStr(states) ==
    Join(<<" ">>, [i \in 1..Len(states) |-> IF states[i] THEN <<"1">> ELSE <<"0">>])

\* bool(int(token)) for a token of decimal digits: false for zero only.
TokenToBool(token) == \E i \in 1..Len(token) : token[i] # "0"

\* Mutant of StatesFromStr: bool(token) without int(): a non-empty string is
\* true.
StatesFromStr_NoInt(state_as_str) ==
    LET tokens == Split(state_as_str)
    IN  [i \in 1..Len(tokens) |-> tokens[i] # <<>>]

\* map(bool, map(int, state_as_str.split()))
StatesFromStr(state_as_str) ==
    LET tokens == Split(state_as_str)
    IN  [i \in 1..Len(tokens) |-> TokenToBool(tokens[i])]

\* save_ensemble: every annotated reaction gets its vector under
\* ENSEMBLE_STATE in its metadata; save_cbmodel then writes each reaction's
\* metadata into its notes (_save_reactions -> _save_metadata).
EnsembleMetadata(ens, md) ==
    [r \in Reactions |->
        IF r \in DOMAIN ens.reaction_states
        THEN DictSet(md[r], s_ENSEMBLE_STATE, StateAsStr(ens.reaction_states[r]))
        ELSE md[r]]

save_ensemble(ens, md) ==
    [r \in Reactions |-> _save_metadata(EnsembleMetadata(ens, md)[r])]

\* The reaction_states load_ensemble collects from the loaded model.
LoadedReactionStates(notes) ==
    LET md == [r \in Reactions |-> _load_metadata(notes[r], <<>>)]
    IN  [r \in {q \in Reactions : s_ENSEMBLE_STATE \in Keys(md[q])} |->
            StatesFromStr(DictGet(md[r], s_ENSEMBLE_STATE))]

\* load_ensemble: with more than one vector length it prints a message and
\* returns None; with no annotated reaction sizes[0] raises IndexError; else
\* EnsembleModel(model, sizes[0], reaction_states), whose assertions hold.
load_ensemble(notes) ==
    LET reaction_states == LoadedReactionStates(notes)
        sizes == {Len(reaction_states[r]) : r \in DOMAIN reaction_states}
    IN  IF Cardinality(sizes) > 1
        THEN [raised |-> "", returned |-> TRUE, value |-> None]
        ELSE IF sizes = {}
        THEN [raised |-> "IndexError", returned |-> FALSE, value |-> None]
        ELSE [raised |-> "", returned |-> TRUE,
              value |-> Some([size |-> CHOOSE n \in sizes : TRUE,
                              reaction_states |-> reaction_states])]

(***************************************************************************)
(* SpecEnsemble: an ensemble is saved and loaded back, or a document that  *)
(* some other writer produced is loaded.                                   *)
(***************************************************************************)
MaxSize == 2    \* ensembles have at most this many members

BoolSeqs(n) == [1..n -> BOOLEAN]

\* EnsembleModel(model, size, reaction_states): the vectors of a non-empty
\* set of reactions of the model, each of length size (with no
\* reaction_states every reaction gets [True]*size).
Ensembles ==
    UNION {UNION {{[size |-> n, reaction_states |-> f] : f \in [S -> BoolSeqs(n)]} :
                  S \in (SUBSET Reactions) \ {{}}} :
           n \in 0..MaxSize}

\* The other annotations a reaction of the model may carry.
ReactionMetadata == {<<>>, << <<s_SOURCE, s_KEGG>> >>}

\* The notes of a reaction of a document: none, or one ENSEMBLE_STATE
\* paragraph with a vector of any length.
EnsembleNotes ==
    {None} \cup
    UNION {{Some(<<NoteText(s_ENSEMBLE_STATE, StateAsStr(v))>>) : v \in BoolSeqs(n)} :
           n \in 0..MaxSize}

InitEnsemble ==
    /\ \/ /\ ensemble \in {Some(e) : e \in Ensembles}
          /\ rxn_metadata \in [Reactions -> ReactionMetadata]
          /\ ens_notes = [r \in Reactions |-> None]
          /\ ens_pc = "ensemble"
       \/ /\ ensemble = None
          /\ rxn_metadata = [r \in Reactions |-> <<>>]
          /\ ens_notes \in [Reactions -> EnsembleNotes]
          /\ ens_pc = "saved"
    /\ ens_result = NoResult
    /\ RestOfEns

\* save_ensemble(ensemble, outputfile); the model's metadata is updated too.
SaveEnsemble ==
    /\ ens_pc = "ensemble"
    /\ rxn_metadata' = EnsembleMetadata(Val(ensemble), rxn_metadata)
    /\ ens_notes' = save_ensemble(Val(ensemble), rxn_metadata)
    /\ ens_pc' = "saved"
    /\ UNCHANGED <<ensemble, ens_result, notEns>>

\* load_ensemble(inputfile)
LoadEnsemble ==
    /\ ens_pc = "saved"
    /\ ens_result' = load_ensemble(ens_notes)
    /\ ens_pc' = "loaded"
    /\ UNCHANGED <<ensemble, rxn_metadata, ens_notes, notEns>>

NextEnsemble == SaveEnsemble \/ LoadEnsemble

SpecEnsemble == InitEnsemble /\ [][NextEnsemble]_vars

C7_MismatchRaises ==
    (ens_pc = "loaded" /\
     \E r1, r2 \in DOMAIN LoadedReactionStates(ens_notes) :
         Len(LoadedReactionStates(ens_notes)[r1]) # Len(LoadedReactionStates(ens_notes)[r2]))
    => /\ ens_result.raised = "InconsistentEnsembleSizeError"
       /\ ~ens_result.returned

(***************************************************************************)
(* SpecLoad: the stages of load_cbmodel (sbml.py:43-78, 85-174).           *)
(***************************************************************************)
\* The structural entities of the document, in the order they are loaded:
\* compartments, then species, then reactions.
Entities == <<"c1", "m1">> \o ReactionIds

\* The documents a load may be given: what a save of some model wrote with
\* any flavor, and an fbc2 document whose parameter table was lost.
ModelsToLoad ==
    { [bounds |-> [r \in Reactions |-> b], objective |-> [r \in Reactions |-> c]] :
          b \in {<<None, None>>, <<Some(-1), Some(1)>>}, c \in {0, 1} }

SavedConstraints ==
    { _save_cb_parameters(m.bounds, m.objective, EnableFbc(EmptyDocument, f), f) :
          m \in ModelsToLoad, f \in Flavors }

ConstraintDocuments ==
    SavedConstraints \cup {[d EXCEPT !.parameters = <<>>] : d \in {e \in SavedConstraints : e.fbc}}

\* readable: readSBML gave a model; rule: the GENE_ASSOCIATION notes of the
\* reactions are absent, a rule sympy parses, or text it rejects.
Documents ==
    [ readable : BOOLEAN, rule : {"none", "parses", "malformed"}, cb : ConstraintDocuments ]

InitLoad ==
    /\ ld_doc \in Documents
    /\ ld_flavor \in Flavors
    /\ ld_pc = "unstarted"
    /\ ld_trace = <<>>
    /\ ld_result = NotLoaded
    /\ RestOfLd

\* An exception leaves load_sbml_model: nothing is returned.
Fails(exception) ==
    /\ ld_pc' = "failed"
    /\ ld_result' = [raised |-> exception, returned |-> FALSE,
                     bounds |-> None, objective |-> None]
    /\ UNCHANGED <<ld_doc, ld_flavor, ld_trace, notLd>>

\* _load_compartments, _load_metabolites, _load_reactions: each entity is
\* built and its notes are decoded at once (_load_metadata at 100, 111, 154).
EntityMetadata(e) == <<"metadata", e>>
StructuralEvents ==
    [i \in 1..Len(Entities) |-> EntityMetadata(Entities[i])] \o << <<"stage", "structural">> >>

\* Mutant of AfterStructural: the flavor branch is left out.
AfterStructural_NoBranch(flv) == "metadata"

\* The if / elif / else of _load_cbmodel (163-172): the constraints and the
\* GPRs are loaded for the two known flavors only.
AfterStructural(flv) ==
    IF flv \in {COBRA_MODEL, FBC2_MODEL} THEN "constraints" ELSE "metadata"

\* load_sbml_model 53-58 and _load_cbmodel 159-162.
LoadStructural ==
    /\ ld_pc = "unstarted"
    /\ IF ~ld_doc.readable
       THEN Fails("IOError")
       ELSE /\ ld_trace' = ld_trace \o StructuralEvents
            /\ ld_pc' = AfterStructural(ld_flavor)
            /\ UNCHANGED <<ld_doc, ld_flavor, ld_result, notLd>>

\* _load_cobra_bounds + _load_cobra_objective, or the fbc2 pair (164-165,
\* 168-169).
LoadConstraints ==
    /\ ld_pc = "constraints"
    /\ LET got == _load_cbmodel(ld_doc.cb, ld_flavor)
       IN  IF got.raised # ""
           THEN Fails(got.raised)
           ELSE /\ ld_result' = [got EXCEPT !.returned = FALSE]
                /\ ld_trace' = Append(ld_trace, <<"stage", "constraints">>)
                /\ ld_pc' = "gpr"
                /\ UNCHANGED <<ld_doc, ld_flavor, notLd>>

\* _load_cobra_gpr (parse_gpr_rule raises on text sympy cannot parse) or
\* _load_fbc2_gpr (166, 170).
LoadGpr ==
    /\ ld_pc = "gpr"
    /\ IF ld_flavor = COBRA_MODEL /\ ld_doc.rule = "malformed"
       THEN Fails("SyntaxError")
       ELSE /\ ld_trace' = Append(ld_trace, <<"stage", "gpr">>)
            /\ ld_pc' = "metadata"
            /\ UNCHANGED <<ld_doc, ld_flavor, ld_result, notLd>>

\* _load_metadata(sbml_model, model) (67): the notes of the model itself.
LoadModelMetadata ==
    /\ ld_pc = "metadata"
    /\ ld_trace' = ld_trace \o << EntityMetadata("model"), <<"stage", "metadata">> >>
    /\ ld_pc' = "return"
    /\ UNCHANGED <<ld_doc, ld_flavor, ld_result, notLd>>

\* return model (69)
ReturnModel ==
    /\ ld_pc = "return"
    /\ ld_trace' = Append(ld_trace, <<"stage", "done">>)
    /\ ld_result' = [ld_result EXCEPT !.returned = TRUE]
    /\ ld_pc' = "done"
    /\ UNCHANGED <<ld_doc, ld_flavor, notLd>>

NextLoad ==
    LoadStructural \/ LoadConstraints \/ LoadGpr \/ LoadModelMetadata \/ ReturnModel

SpecLoad == InitLoad /\ [][NextLoad]_vars

\* The stages a trace went through, without the metadata events.
RECURSIVE StagesOf(_)
StagesOf(trace) ==
    IF trace = <<>> THEN <<>>
    ELSE (IF Head(trace)[1] = "stage" THEN <<Head(trace)[2]>> ELSE <<>>)
         \o StagesOf(Tail(trace))

IsPrefix(a, b) == Len(a) <= Len(b) /\ SubSeq(b, 1, Len(a)) = a

\* Position of an event in a trace, 0 when it is not there.
IndexOf(trace, e) ==
    IF \E i \in 1..Len(trace) : trace[i] = e
    THEN CHOOSE i \in 1..Len(trace) : trace[i] = e
    ELSE 0

Occurrences(trace, e) == Cardinality({i \in 1..Len(trace) : trace[i] = e})

AllStages == <<"structural", "constraints", "gpr", "metadata", "done">>

\* C5 as stated: every load goes through structural load, constraints, GPR,
\* metadata, done in that order, each at most once; no metadata of any
\* entity is decoded before GPR resolution; a failure returns no model.
C5_MetadataAfterGpr ==
    /\ IsPrefix(StagesOf(ld_trace), AllStages)
    /\ ld_pc = "done" => StagesOf(ld_trace) = AllStages
    /\ \A i \in 1..Len(ld_trace) :
           ld_trace[i][1] = "metadata" =>
               \E j \in 1..(i - 1) : ld_trace[j] = <<"stage", "gpr">>
    /\ ld_pc = "failed" => ~ld_result.returned

\* C5, amended: a load with flavor 'cobra' or 'fbc2' goes through structural
\* load, constraints, GPR, metadata, done in that order, each at most once
\* (with any other flavor the constraints and GPR stages are skipped); the
\* metadata of every compartment, species and reaction is decoded once,
\* inside the structural load and so before GPR resolution, and only the
\* metadata of the model itself is decoded after GPR resolution; an exception
\* in any stage ends the load with no model returned.
C5_LoadStages ==
    LET expected == IF ld_flavor \in {COBRA_MODEL, FBC2_MODEL} THEN AllStages
                    ELSE <<"structural", "metadata", "done">>
        structural == IndexOf(ld_trace, <<"stage", "structural">>)
        gpr == IndexOf(ld_trace, <<"stage", "gpr">>)
    IN  /\ IsPrefix(StagesOf(ld_trace), expected)
        /\ ld_pc = "done" => StagesOf(ld_trace) = expected
        /\ \A i \in 1..Len(Entities) :
               LET at == IndexOf(ld_trace, EntityMetadata(Entities[i]))
               IN  /\ Occurrences(ld_trace, EntityMetadata(Entities[i])) <= 1
                   /\ structural # 0 => (0 < at /\ at < structural)
                   /\ gpr # 0 => (0 < at /\ at < gpr)
        /\ LET at == IndexOf(ld_trace, EntityMetadata("model"))
           IN  /\ Occurrences(ld_trace, EntityMetadata("model")) <= 1
               /\ at # 0 => structural < at
               /\ (at # 0 /\ gpr # 0) => gpr < at
        /\ ld_pc = "failed" <=> ld_result.raised # ""
        /\ ld_pc = "failed" => ~ld_result.returned
        /\ ld_result.returned => ld_pc = "done"

\* A cobra load has run through all its stages and returned the model.
C5_Witness ==
    /\ ld_pc = "done"
    /\ ld_flavor = COBRA_MODEL
    /\ ld_result.returned
    /\ StagesOf(ld_trace) = AllStages

(***************************************************************************)
(* SpecGpr: a legacy rule text, written from a boolean expression over     *)
(* genes, is parsed by parse_gpr_rule.                                     *)
(***************************************************************************)
NumGenes == 3    \* the rules are written over this many genes

\* The expressions: a gene, or 'and' / 'or' of two expressions, two deep.
GeneLeaf(i) == [op |-> "gene", gene |-> i, kids |-> <<>>]
Compound(op, left, right) == [op |-> op, gene |-> 0, kids |-> <<left, right>>]
CompoundsOver(T) == {Compound(op, l, r) : op \in {"and", "or"}, l \in T, r \in T}
Expr0 == {GeneLeaf(i) : i \in 1..NumGenes}
Expr1 == Expr0 \cup CompoundsOver(Expr0)
Expr2 == Expr0 \cup CompoundsOver(Expr1)

\* How a text spells gene i: with or without the G_ prefix, its name in one
\* piece or in pieces joined by hyphens.
Stem(i) == <<"b", "0", "0", "0", CharOrder[i + 1]>>
Plain(i) == [prefixed |-> FALSE, pieces |-> <<Stem(i)>>]
Prefixed(i) == [prefixed |-> TRUE, pieces |-> <<Stem(i)>>]
Hyphenated(i) == [prefixed |-> FALSE, pieces |-> <<<<"b">>, <<"0", "0", CharOrder[i + 1]>>>>]
Schemes == {"plain", "prefixed", "hyphen", "mixed", "alias"}
Spelling(scheme, i) ==
    IF scheme = "plain" THEN Plain(i)
    ELSE IF scheme = "prefixed" THEN Prefixed(i)
    ELSE IF scheme = "hyphen" THEN Hyphenated(i)
    ELSE IF scheme = "mixed"
         THEN (IF i % 3 = 1 THEN Plain(i) ELSE IF i % 3 = 2 THEN Prefixed(i)
               ELSE Hyphenated(i))
    ELSE (IF i = 2 THEN Prefixed(1) ELSE Plain(i))

GeneToken(sp) ==
    (IF sp.prefixed THEN <<"G", "_">> ELSE <<>>) \o Join(<<"-">>, sp.pieces)

\* Where the text puts parentheses: only where precedence needs them,
\* around every compound operand, or around the whole rule as well.
Styles == {"minimal", "grouped", "wrapped"}

RECURSIVE RuleText(_, _, _)
RuleText(e, scheme, style) ==
    IF e.op = "gene" THEN GeneToken(Spelling(scheme, e.gene))
    ELSE LET operand(k) ==
                 LET text == RuleText(e.kids[k], scheme, style)
                     parens == /\ e.kids[k].op # "gene"
                               /\ \/ style # "minimal"
                                  \/ (e.op = "and" /\ e.kids[k].op = "or")
                 IN  IF parens THEN <<"(">> \o text \o <<")">> ELSE text
             word == IF e.op = "and" THEN <<" ", "a", "n", "d", " ">>
                     ELSE <<" ", "o", "r", " ">>
         IN  operand(1) \o word \o operand(2)

WrittenRule(e, sp) ==
    IF sp.style = "wrapped" /\ e.op # "gene"
    THEN <<"(">> \o RuleText(e, sp.scheme, sp.style) \o <<")">>
    ELSE RuleText(e, sp.scheme, sp.style)

InitGpr ==
    /\ rule_expr \in Expr2
    /\ rule_spelling \in [scheme : Schemes, style : Styles]
    /\ rule_text = WrittenRule(rule_expr, rule_spelling)
    /\ gpr_result = [raised |-> "", gpr |-> None]
    /\ gpr_pc = "rule"
    /\ RestOfGpr

\* gpr = parse_gpr_rule(rule)
ParseGprRule ==
    /\ gpr_pc = "rule"
    /\ gpr_result' = parse_gpr_rule(rule_text)
    /\ gpr_pc' = "parsed"
    /\ UNCHANGED <<rule_expr, rule_spelling, rule_text, notGpr>>

NextGpr == ParseGprRule

SpecGpr == InitGpr /\ [][NextGpr]_vars

\* The identifier the claim gives a gene token: G_ once, hyphens as
\* underscores.
ClaimedId(sp) == <<"G", "_">> \o Join(<<"_">>, sp.pieces)

RECURSIVE GenesOf(_)
GenesOf(e) ==
    IF e.op = "gene" THEN {e.gene} ELSE GenesOf(e.kids[1]) \cup GenesOf(e.kids[2])

\* The value of the expression when exactly the genes with ids in A are there.
RECURSIVE Holds(_, _, _)
Holds(e, scheme, A) ==
    IF e.op = "gene" THEN ClaimedId(Spelling(scheme, e.gene)) \in A
    ELSE IF e.op = "and"
         THEN Holds(e.kids[1], scheme, A) /\ Holds(e.kids[2], scheme, A)
    ELSE Holds(e.kids[1], scheme, A) \/ Holds(e.kids[2], scheme, A)

\* The value of a GPR association: some protein has all its genes.
GprHolds(proteins, A) ==
    \E i \in 1..Len(proteins) : \A j \in 1..Len(proteins[i]) : proteins[i][j] \in A

ScenarioRule ==
    << "(", "b", "0", "0", "0", "1", " ", "a", "n", "d", " ",
       "b", "0", "0", "0", "2", ")", " ", "o", "r", " ", "b", "0", "0", "0", "3" >>

\* C10: parse_gpr_rule turns a rule text of gene tokens, 'and', 'or' and
\* parentheses into a list of at least one protein, each a non-empty list of
\* gene identifiers (the tokens of the rule with G_ exactly once and hyphens
\* as underscores, nothing nested), that is true for exactly the gene sets
\* the rule is true for; "(b0001 and b0002) or b0003" gives the two proteins
\* {G_b0001, G_b0002} and {G_b0003}.
C10_RuleParsesToEquivalentDnf ==
    gpr_pc = "parsed" =>
        LET ids == {ClaimedId(Spelling(rule_spelling.scheme, i)) : i \in GenesOf(rule_expr)}
        IN  /\ gpr_result.raised = ""
            /\ ~IsNone(gpr_result.gpr)
            /\ LET proteins == Val(gpr_result.gpr)
               IN  /\ Len(proteins) >= 1
                   /\ \A i \in 1..Len(proteins) :
                          /\ Len(proteins[i]) >= 1
                          /\ \A j \in 1..Len(proteins[i]) : proteins[i][j] \in ids
                   /\ \A A \in SUBSET ids :
                          GprHolds(proteins, A) <=>
                              Holds(rule_expr, rule_spelling.scheme, A)
                   /\ rule_text = ScenarioRule =>
                          /\ Len(proteins) = 2
                          /\ {{proteins[i][j] : j \in 1..Len(proteins[i])} :
                                  i \in 1..Len(proteins)}
                             = { {<<"G", "_", "b", "0", "0", "0", "1">>,
                                  <<"G", "_", "b", "0", "0", "0", "2">>},
                                 {<<"G", "_", "b", "0", "0", "0", "3">>} }

\* The rule of the scenario has been parsed.
C10_Witness ==
    /\ gpr_pc = "parsed"
    /\ rule_text = ScenarioRule
    /\ ~IsNone(gpr_result.gpr)

\* A rule that is not in DNF as written, with prefixed and hyphenated gene
\* tokens, has been parsed into more than one protein.
C10_WitnessDistributed ==
    /\ gpr_pc = "parsed"
    /\ rule_spelling.scheme = "mixed"
    /\ rule_expr = Compound("and", Compound("or", GeneLeaf(1), GeneLeaf(2)),
                                   Compound("or", GeneLeaf(3), GeneLeaf(1)))
    /\ Len(Val(gpr_result.gpr)) = 4

(***************************************************************************)
(* SpecAssoc: the GPR association of one reaction through one dialect. A   *)
(* run starts from a model (the association is saved, then loaded) or from *)
(* a document written elsewhere (its rule text or fbc association is       *)
(* loaded).                                                                *)
(***************************************************************************)
MaxProteins == 2    \* a saved association has at most this many proteins

GeneIds == {GeneToken(Prefixed(i)) : i \in 1..NumGenes}

\* The genes of a model: ids with the G_ prefix, and one without it.
ModelGeneIds == GeneIds \cup {GeneToken(Plain(1))}

\* The associations of a model: proteins of one gene or of two different
\* genes, in either order.
CanonicalProteins ==
    {<<g>> : g \in ModelGeneIds}
        \cup ({<<g, h>> : g \in ModelGeneIds, h \in ModelGeneIds}
                  \ {<<g, g>> : g \in ModelGeneIds})
CanonicalAssociations == UNION {[1..n -> CanonicalProteins] : n \in 1..MaxProteins}

\* The fbc associations of a document: nodes of up to two items, two deep,
\* and an FbcOr over one FbcAnd of such nodes.
Leaves == {RefNode(g) : g \in GeneIds} \cup {BareNode}
ItemsOver(T) == {<<>>} \cup {<<a>> : a \in T} \cup {<<a, b>> : a \in T, b \in T}
NodesOver(T) == {AndNode(k) : k \in ItemsOver(T)} \cup {OrNode(k) : k \in ItemsOver(T)}
Tree1 == Leaves \cup NodesOver(Leaves)
Tree2 == Leaves \cup NodesOver(Tree1)
FbcAssociations ==
    Tree2 \cup {OrNode(<<AndNode(k)>>) : k \in ItemsOver(Tree1)} \cup {NoAssociation}

\* The rule texts of a document: every expression of SpecGpr, G_ ids,
\* parentheses around every compound operand.
DocumentSpelling == [scheme |-> "prefixed", style |-> "grouped"]
NoExpression == <<>>

FromModel(gpr) == [origin |-> "model", gpr |-> gpr, expr |-> NoExpression]
FromDocument(e) == [origin |-> "document", gpr |-> None, expr |-> e]
NoGprResult == [raised |-> "", gpr |-> None, printed |-> FALSE]

InitAssoc ==
    /\ \/ /\ assoc_source \in {FromModel(Some(g)) : g \in CanonicalAssociations}
                              \cup {FromModel(None)}
          /\ assoc_dialect \in {COBRA_MODEL, FBC2_MODEL}
          /\ assoc_raw = <<>>
          /\ assoc_pc = "model"
       \/ /\ assoc_source \in {FromDocument(e) : e \in Expr2}
          /\ assoc_dialect = COBRA_MODEL
          /\ assoc_raw = Some(WrittenRule(assoc_source.expr, DocumentSpelling))
          /\ assoc_pc = "document"
       \/ /\ assoc_source = FromDocument(NoExpression)
          /\ assoc_dialect = FBC2_MODEL
          /\ assoc_raw \in {[present |-> TRUE, association |-> t] : t \in FbcAssociations}
                           \cup {[present |-> FALSE, association |-> NoAssociation]}
          /\ assoc_pc = "document"
    /\ assoc_result = NoGprResult
    /\ RestOfAssoc

\* _save_gpr_associations(model, sbml_model, flavor), not fbc2.
SaveCobraGprs ==
    /\ assoc_pc = "model"
    /\ assoc_dialect # FBC2_MODEL
    /\ assoc_raw' = _save_cobra_gprs(assoc_source.gpr)
    /\ assoc_pc' = "document"
    /\ UNCHANGED <<assoc_source, assoc_dialect, assoc_result, notAssoc>>

\* _save_gpr_associations(model, sbml_model, flavor), flavor fbc2.
SaveFbcGprs ==
    /\ assoc_pc = "model"
    /\ assoc_dialect = FBC2_MODEL
    /\ assoc_raw' = _save_fbc_gprs(assoc_source.gpr)
    /\ assoc_pc' = "document"
    /\ UNCHANGED <<assoc_source, assoc_dialect, assoc_result, notAssoc>>

\* _load_cobra_gpr(sbml_model, model) of _load_cbmodel, flavor cobra.
LoadCobraGpr ==
    /\ assoc_pc = "document"
    /\ assoc_dialect = COBRA_MODEL
    /\ assoc_result' = _load_cobra_gpr(assoc_raw)
    /\ assoc_pc' = "loaded"
    /\ UNCHANGED <<assoc_source, assoc_dialect, assoc_raw, notAssoc>>

\* _load_fbc2_gpr(sbml_model, model) of _load_cbmodel, flavor fbc2.
LoadFbc2Gpr ==
    /\ assoc_pc = "document"
    /\ assoc_dialect = FBC2_MODEL
    /\ assoc_result' = _load_fbc2_gpr(assoc_raw)
    /\ assoc_pc' = "loaded"
    /\ UNCHANGED <<assoc_source, assoc_dialect, assoc_raw, notAssoc>>

NextAssoc == SaveCobraGprs \/ SaveFbcGprs \/ LoadCobraGpr \/ LoadFbc2Gpr

SpecAssoc == InitAssoc /\ [][NextAssoc]_vars

\* The proteins of an association as sets of genes.
GeneSet(protein) == {protein[j] : j \in 1..Len(protein)}
ProteinSets(proteins) == {GeneSet(proteins[i]) : i \in 1..Len(proteins)}
DuplicateFree(seq) == \A i \in 1..Len(seq) : \A j \in 1..Len(seq) : seq[i] = seq[j] => i = j

WithPrefix(g) ==
    IF Len(g) >= 2 /\ SubSeq(g, 1, 2) = <<"G", "_">> THEN g ELSE <<"G", "_">> \o g
PrefixedSets(proteins) ==
    {{WithPrefix(proteins[i][j]) : j \in 1..Len(proteins[i])} : i \in 1..Len(proteins)}

C11_WitnessLegacy ==
    /\ assoc_pc = "loaded"
    /\ assoc_source.origin = "model"
    /\ assoc_dialect = COBRA_MODEL
    /\ ~IsNone(assoc_source.gpr)
    /\ ~IsNone(assoc_result.gpr)
    /\ Len(Val(assoc_source.gpr)) = 2
    /\ Len(Val(assoc_result.gpr)) = 2
    /\ Val(assoc_result.gpr)[1] = Val(assoc_source.gpr)[2]
    /\ Val(assoc_result.gpr)[1] # Val(assoc_source.gpr)[1]

\* The alternatives of a rule as written (the operands of its 'or's), and
\* the gene ids of one alternative in the order written.
RECURSIVE Alternatives(_)
Alternatives(e) ==
    IF e.op = "or" THEN Alternatives(e.kids[1]) \o Alternatives(e.kids[2]) ELSE <<e>>

RECURSIVE WrittenGenes(_)
WrittenGenes(e) ==
    IF e.op = "gene" THEN <<GeneToken(Prefixed(e.gene))>>
    ELSE WrittenGenes(e.kids[1]) \o WrittenGenes(e.kids[2])

RECURSIVE HasOr(_)
HasOr(e) == e.op = "or" \/ (e.op = "and" /\ (HasOr(e.kids[1]) \/ HasOr(e.kids[2])))

\* A rule text that is an OR of AND-groups of genes as written.
WrittenInDnf(e) == \A i \in 1..Len(Alternatives(e)) : ~HasOr(Alternatives(e)[i])

\* The alternatives of an fbc association of the supported shape: the items
\* of the FbcOr, or the one FbcAnd or gene reference; the genes of one.
FbcAlternatives(t) == IF t.kind = "or" THEN t.kids ELSE <<t>>
FbcGenes(alt) ==
    IF alt.kind = "ref" THEN <<alt.gene>> ELSE [j \in 1..Len(alt.kids) |-> alt.kids[j].gene]
FbcGroup(alt) ==
    \/ alt.kind = "ref"
    \/ alt.kind = "and" /\ alt.kids # <<>> /\ \A j \in 1..Len(alt.kids) : alt.kids[j].kind = "ref"
FbcInDnf(t) ==
    /\ t.kind \in {"or", "and", "ref"}
    /\ FbcAlternatives(t) # <<>>
    /\ \A i \in 1..Len(FbcAlternatives(t)) : FbcGroup(FbcAlternatives(t)[i])

\* The alternatives of the document of this run, each as its list of genes.
DocumentInDnf ==
    /\ assoc_source.origin = "document"
    /\ IF assoc_dialect = COBRA_MODEL THEN WrittenInDnf(assoc_source.expr)
       ELSE assoc_raw.present /\ FbcInDnf(assoc_raw.association)
DocumentAlternatives ==
    IF assoc_dialect = COBRA_MODEL
    THEN LET alts == Alternatives(assoc_source.expr)
         IN  [i \in 1..Len(alts) |-> WrittenGenes(alts[i])]
    ELSE LET alts == FbcAlternatives(assoc_raw.association)
         IN  [i \in 1..Len(alts) |-> FbcGenes(alts[i])]

C12_WitnessStructured ==
    /\ assoc_pc = "loaded"
    /\ assoc_dialect = FBC2_MODEL
    /\ assoc_raw.present
    /\ \E g \in GeneIds :
           /\ assoc_raw.association = OrNode(<<AndNode(<<RefNode(g), RefNode(g)>>), RefNode(g)>>)
           /\ Val(assoc_result.gpr) = <<<<g, g>>, <<g>>>>

\* The shape the structured parser supports: a gene reference, an FbcAnd of
\* gene references, or an FbcOr of such.
FbcSupported(t) ==
    LET group(n) ==
            \/ n.kind = "ref"
            \/ n.kind = "and" /\ \A j \in 1..Len(n.kids) : n.kids[j].kind = "ref"
    IN  \/ group(t)
        \/ t.kind = "or" /\ \A i \in 1..Len(t.kids) : group(t.kids[i])

\* C13: loading an fbc association that is not of the supported shape (an
\* OR or AND under an AND, an OR under an OR, a node that is no OR, AND or
\* gene reference) is reported as NonMonotonicLogicError; so a GPR set on a
\* reaction by a load has at least one protein and every protein at least
\* one gene.
C13_UnsupportedShapeReported ==
    (assoc_pc = "loaded" /\ assoc_dialect = FBC2_MODEL /\ assoc_source.origin = "document"
        /\ assoc_raw.present /\ assoc_raw.association # NoAssociation) =>
        /\ ~FbcSupported(assoc_raw.association) =>
               assoc_result.raised = "NonMonotonicLogicError"
        /\ (assoc_result.raised = "" /\ ~IsNone(assoc_result.gpr)) =>
               /\ Len(Val(assoc_result.gpr)) >= 1
               /\ \A i \in 1..Len(Val(assoc_result.gpr)) : Len(Val(assoc_result.gpr)[i]) >= 1

(***************************************************************************)
(* SpecLegacy: flavor cobra, two reactions. A model is saved (once or      *)
(* again) and the document loaded, or a document written elsewhere is      *)
(* loaded.                                                                 *)
(***************************************************************************)
MaxSaves == 2    \* save_cbmodel is called on the model at most this often

\* The models: per reaction bounds, a coefficient, annotations and a GPR.
LegacyBounds == {<<None, None>>, <<Some(0), Some(1)>>}
LegacyMetadata ==
    { <<>>,
      << <<s_SOURCE, s_KEGG>> >>,
      << <<s_SOURCE, s_KEGG>>, <<s_NOTE, s_approx \o <<":">> \o s_value>> >> }
LegacyGprs ==
    { None,
      Some(<< <<GeneToken(Prefixed(1))>> >>),
      Some(<< <<GeneToken(Prefixed(1)), GeneToken(Prefixed(2))>>, <<GeneToken(Prefixed(3))>> >>) }
LegacyModels ==
    [ bounds    : [Reactions -> LegacyBounds],
      objective : [Reactions -> CoeffValues],
      metadata  : [Reactions -> LegacyMetadata],
      gprs      : [Reactions -> LegacyGprs] ]

\* The documents written elsewhere, per reaction: a kinetic law or none,
\* with or without each of the three parameters; no rule or one of two; a
\* SOURCE annotation or none; a paragraph without a colon or none.
DocumentRules ==
    << [text |-> Stem(1), genes |-> {GeneToken(Prefixed(1))}],
       [text |-> ScenarioRule, genes |-> {GeneToken(Prefixed(i)) : i \in 1..3}] >>
LooseParagraph == <<"d", "r", "a", "f", "t">>
ReactionEntries ==
    { e \in [ law : BOOLEAN, lb : {None, Some(-1)}, ub : {None, Some(1)},
              coeff : {None, Some(1)}, rule : 0..Len(DocumentRules),
              source : BOOLEAN, loose : BOOLEAN ] :
          ~e.law => (IsNone(e.lb) /\ IsNone(e.ub) /\ IsNone(e.coeff)) }

WrittenLaw(e) ==
    IF ~e.law THEN None
    ELSE Some((IF IsNone(e.lb) THEN <<>> ELSE <<Parameter(LB_TAG, Val(e.lb))>>)
              \o (IF IsNone(e.ub) THEN <<>> ELSE <<Parameter(UB_TAG, Val(e.ub))>>)
              \o (IF IsNone(e.coeff) THEN <<>> ELSE <<Parameter(OBJ_TAG, Val(e.coeff))>>))
WrittenNotes(e) ==
    LET paragraphs ==
            (IF e.loose THEN <<LooseParagraph>> ELSE <<>>)
            \o (IF e.source THEN <<NoteText(s_SOURCE, s_KEGG)>> ELSE <<>>)
            \o (IF e.rule > 0 THEN <<NoteText(GPR_TAG, DocumentRules[e.rule].text)>> ELSE <<>>)
    IN  IF paragraphs = <<>> THEN None ELSE Some(paragraphs)
WrittenDocument(entries) ==
    [ kineticLaw |-> [r \in Reactions |-> WrittenLaw(entries[r])],
      notes      |-> [r \in Reactions |-> WrittenNotes(entries[r])] ]

NothingLoaded ==
    [ raised |-> "", returned |-> FALSE, bounds |-> <<>>, objective |-> <<>>,
      metadata |-> <<>>, gprs |-> <<>>, genes |-> {} ]

InitLegacy ==
    /\ \/ /\ lg_model \in LegacyModels
          /\ lg_origin = <<>>
          /\ lg_doc = EmptyLegacyDocument
          /\ lg_pc = "model"
       \/ /\ lg_model = <<>>
          /\ lg_origin \in [Reactions -> ReactionEntries]
          /\ lg_doc = WrittenDocument(lg_origin)
          /\ lg_pc = "document"
    /\ lg_before = <<>>
    /\ lg_trace = <<>>
    /\ lg_loaded = NothingLoaded
    /\ RestOfLegacy

\* The events of a save: str(gpr) of a reaction, _save_metadata of a reaction.
Rendered(r) == <<"render", r>>
Encoded(r) == <<"notes", r>>

\* save_sbml_model up to _save_reactions (398-404): a new document, the
\* notes of every reaction encoded from its metadata.
LegacySaveReactions ==
    /\ lg_pc \in {"model", "saved"}
    /\ Len(lg_before) < MaxSaves
    /\ lg_before' = Append(lg_before, lg_model.metadata)
    /\ lg_doc' = _save_reactions(lg_model, EmptyLegacyDocument)
    /\ lg_trace' = [i \in 1..Len(ReactionIds) |-> Encoded(ReactionIds[i])]
    /\ lg_pc' = "reactions"
    /\ UNCHANGED <<lg_model, lg_origin, lg_loaded, notLegacy>>

\* _save_cb_parameters(model, sbml_model, flavor) (406).
LegacySaveParameters ==
    /\ lg_pc = "reactions"
    /\ lg_doc' = _save_cb_parameters(lg_model.bounds, lg_model.objective, lg_doc, COBRA_MODEL)
    /\ lg_pc' = "parameters"
    /\ UNCHANGED <<lg_model, lg_before, lg_origin, lg_trace, lg_loaded, notLegacy>>

\* _save_gpr_associations -> _save_cobra_gprs (407), then the model's own
\* metadata and the write (413-415).
LegacySaveGprs ==
    /\ lg_pc = "parameters"
    /\ lg_model' = TagGprs(lg_model)
    /\ lg_doc' = RewriteNotes(lg_model, lg_doc)
    /\ lg_trace' = lg_trace \o Concat([i \in 1..Len(ReactionIds) |->
                       IF IsNone(lg_model.gprs[ReactionIds[i]]) THEN <<>>
                       ELSE <<Rendered(ReactionIds[i]), Encoded(ReactionIds[i])>>])
    /\ lg_pc' = "saved"
    /\ UNCHANGED <<lg_before, lg_origin, lg_loaded, notLegacy>>

\* load_cbmodel(filename, flavor=COBRA_MODEL) -> _load_cbmodel.
LegacyLoad ==
    /\ lg_pc \in {"saved", "document"}
    /\ lg_loaded' = _load_cobra_model(lg_doc)
    /\ lg_pc' = "loaded"
    /\ UNCHANGED <<lg_model, lg_before, lg_origin, lg_doc, lg_trace, notLegacy>>

NextLegacy == LegacySaveReactions \/ LegacySaveParameters \/ LegacySaveGprs \/ LegacyLoad

SpecLegacy == InitLegacy /\ [][NextLegacy]_vars

\* The genes of an association.
GenesIn(proteins) == UNION {GeneSet(proteins[i]) : i \in 1..Len(proteins)}

\* C14: a reaction without a rule, a reaction without a kinetic-law
\* parameter and a notes paragraph without a colon never abort a load and
\* touch nothing else: every reaction of the document gets the bounds its
\* own parameters give (unset where missing), its coefficient (none where
\* missing), the GPR of its own rule (None without one), the annotations of
\* its own paragraphs with a colon; the genes are those of the rules present.
C14_ToleratedConditionsLocal ==
    (lg_pc = "loaded" /\ lg_origin # <<>>) =>
        /\ lg_loaded.raised = ""
        /\ lg_loaded.returned
        /\ \A r \in Reactions :
               LET e == lg_origin[r]
               IN  /\ lg_loaded.bounds[r] = <<e.lb, e.ub>>
                   /\ IF IsNone(e.coeff) THEN r \notin DOMAIN lg_loaded.objective
                      ELSE /\ r \in DOMAIN lg_loaded.objective
                           /\ lg_loaded.objective[r] = Val(e.coeff)
                   /\ IF e.rule = 0 THEN IsNone(lg_loaded.gprs[r])
                      ELSE /\ ~IsNone(lg_loaded.gprs[r])
                           /\ GenesIn(Val(lg_loaded.gprs[r])) = DocumentRules[e.rule].genes
                   /\ lg_loaded.metadata[r] =
                          (IF e.source THEN << <<s_SOURCE, s_KEGG>> >> ELSE <<>>)
        /\ lg_loaded.genes =
               UNION {IF lg_origin[r].rule = 0 THEN {}
                      ELSE DocumentRules[lg_origin[r].rule].genes : r \in Reactions}

\* A document has been loaded whose first reaction has no kinetic law, no
\* rule and only a paragraph without a colon, and whose second reaction has
\* all three parameters, a rule and an annotation.
C14_Witness ==
    /\ lg_pc = "loaded"
    /\ lg_origin # <<>>
    /\ lg_origin[ReactionIds[1]] =
           [law |-> FALSE, lb |-> None, ub |-> None, coeff |-> None, rule |-> 0,
            source |-> FALSE, loose |-> TRUE]
    /\ lg_origin[ReactionIds[2]] =
           [law |-> TRUE, lb |-> Some(-1), ub |-> Some(1), coeff |-> Some(1), rule |-> 2,
            source |-> TRUE, loose |-> FALSE]
    /\ lg_loaded.returned
    /\ Len(Val(lg_loaded.gprs[ReactionIds[2]])) = 2

\* The entries of an annotation map; the last place of an event in a trace.
Entries(metadata) == {metadata[i] : i \in 1..Len(metadata)}
LastIndexOf(trace, e) ==
    IF \E i \in 1..Len(trace) : trace[i] = e
    THEN CHOOSE i \in 1..Len(trace) : trace[i] = e /\ \A j \in (i + 1)..Len(trace) : trace[j] # e
    ELSE 0

\* The metadata of the reactions when the latest save was called.
BeforeSave == lg_before[Len(lg_before)]

\* What C15 says of a finished legacy save: for every reaction with a GPR
\* the rule is rendered before the notes that stay in the document are
\* encoded, and these notes hold GENE_ASSOCIATION with the rendered rule and
\* every other annotation of the reaction.
RuleSavedInNotes ==
    \A r \in Reactions :
        ~IsNone(lg_model.gprs[r]) =>
            /\ IndexOf(lg_trace, Rendered(r)) > 0
            /\ LastIndexOf(lg_trace, Encoded(r)) > LastIndexOf(lg_trace, Rendered(r))
            /\ ~IsNone(lg_doc.notes[r])
            /\ LET paragraphs == {Val(lg_doc.notes[r])[i] : i \in 1..Len(Val(lg_doc.notes[r]))}
               IN  /\ NoteText(GPR_TAG, GprToString(Val(lg_model.gprs[r]))) \in paragraphs
                   /\ \A kv \in Entries(BeforeSave[r]) :
                          kv[1] # GPR_TAG => NoteText(kv[1], kv[2]) \in paragraphs

\* C15 as claimed: in a legacy save the rule of every reaction with a GPR
\* is rendered before its final notes are encoded, the notes hold
\* GENE_ASSOCIATION and every other annotation, the load removes
\* GENE_ASSOCIATION from the annotation map, and save then load gives every
\* reaction the annotation map it had before the save.
C15_SaveThenLoadSameMap ==
    /\ (lg_pc \in {"saved", "loaded"} /\ lg_origin = <<>>) => RuleSavedInNotes
    /\ (lg_pc = "loaded" /\ lg_origin = <<>>) =>
           /\ lg_loaded.returned
           /\ \A r \in Reactions :
                  /\ GPR_TAG \notin Keys(lg_loaded.metadata[r])
                  /\ Entries(lg_loaded.metadata[r]) = Entries(BeforeSave[r])

\* C15: as claimed, except for the map that comes back: save then load
\* gives every reaction the annotation map it had before the save without
\* its GENE_ASSOCIATION entry; the save leaves that entry in the model's
\* own map, so it is there before a second save.
C15_SaveThenLoadMapWithoutRule ==
    /\ (lg_pc \in {"saved", "loaded"} /\ lg_origin = <<>>) => RuleSavedInNotes
    /\ (lg_pc = "loaded" /\ lg_origin = <<>>) =>
           /\ lg_loaded.returned
           /\ \A r \in Reactions :
                  /\ GPR_TAG \notin Keys(lg_loaded.metadata[r])
                  /\ Entries(lg_loaded.metadata[r]) =
                         Entries(BeforeSave[r]) \ {kv \in Entries(BeforeSave[r]) : kv[1] = GPR_TAG}
    /\ (lg_pc = "saved" /\ lg_origin = <<>>) =>
           \A r \in Reactions :
               ~IsNone(lg_model.gprs[r]) => GPR_TAG \in Keys(lg_model.metadata[r])

\* A model whose first reaction has two annotations and a GPR of two
\* proteins has been saved once and loaded.
C15_Witness ==
    /\ lg_pc = "loaded"
    /\ lg_origin = <<>>
    /\ Len(lg_before) = 1
    /\ Len(BeforeSave[ReactionIds[1]]) = 2
    /\ ~IsNone(lg_model.gprs[ReactionIds[1]])
    /\ Len(Val(lg_model.gprs[ReactionIds[1]])) = 2
    /\ ~IsNone(lg_loaded.gprs[ReactionIds[1]])
    /\ Len(lg_loaded.metadata[ReactionIds[1]]) = 2

\* The same model has been saved a second time and loaded.
C15_WitnessSavedAgain ==
    /\ lg_pc = "loaded"
    /\ lg_origin = <<>>
    /\ Len(lg_before) = 2
    /\ GPR_TAG \in Keys(BeforeSave[ReactionIds[1]])
    /\ Len(lg_loaded.metadata[ReactionIds[1]]) = 2

(***************************************************************************)
(* SpecSimulate: simulate_ensemble(ensemble, method, constraints)          *)
(* (ensemble.py:33-48). The simulation method is any function that         *)
(* returns a solution: a status and, when optimal, a flux per reaction.    *)
(***************************************************************************)
OPTIMAL == "optimal"
Solutions ==
    {[status |-> OPTIMAL, values |-> [r \in Reactions |-> v]] : v \in 0..1}
        \cup {[status |-> "infeasible", values |-> <<>>]}

\* The constraints a caller passes: none (the default), or bounds for some
\* of the reactions.
CallerBounds == <<-1, 1>>
CallerConstraints ==
    {None} \cup {Some([r \in S |-> CallerBounds]) : S \in SUBSET Reactions}

\* EnsembleModel.get_constraints(i) (28-30), i counted from 0.
get_constraints(ens, i) ==
    [r \in {q \in Reactions : q \in DOMAIN ens.reaction_states
                               /\ ~ens.reaction_states[q][i + 1]} |-> <<0, 0>>]

\* current.update(constraints) (41)
DictUpdate(current, other) ==
    [r \in (DOMAIN current) \cup (DOMAIN other) |->
        IF r \in DOMAIN other THEN other[r] ELSE current[r]]

InitSimulate ==
    /\ sim_ensemble \in Ensembles
    /\ sim_constraints \in CallerConstraints
    /\ sim_i = 0
    /\ sim_calls = <<>>
    /\ sim_flux = [r \in Reactions |-> [k \in 1..sim_ensemble.size |-> None]]
    /\ sim_raised = ""
    /\ sim_pc = "loop"
    /\ RestOfSimulate

\* One turn of the loop (39-46): dict.update(None) is a TypeError; else func
\* is called and an optimal solution recorded.
SimulateMember ==
    /\ sim_pc = "loop"
    /\ sim_i < sim_ensemble.size
    /\ IF IsNone(sim_constraints)
       THEN /\ sim_raised' = "TypeError"
            /\ sim_pc' = "raised"
            /\ UNCHANGED <<sim_i, sim_calls, sim_flux>>
       ELSE \E sol \in Solutions :
                LET current == DictUpdate(get_constraints(sim_ensemble, sim_i),
                                          Val(sim_constraints))
                IN  /\ sim_calls' = Append(sim_calls,
                           [member |-> sim_i, constraints |-> current, sol |-> sol])
                    /\ sim_flux' =
                           IF sol.status = OPTIMAL
                           THEN [r \in Reactions |->
                                    [sim_flux[r] EXCEPT ![sim_i + 1] = Some(sol.values[r])]]
                           ELSE sim_flux
                    /\ sim_i' = sim_i + 1
                    /\ UNCHANGED <<sim_raised, sim_pc>>
    /\ UNCHANGED <<sim_ensemble, sim_constraints, notSimulate>>

\* return flux_sample (48)
SimulateReturn ==
    /\ sim_pc = "loop"
    /\ sim_i = sim_ensemble.size
    /\ sim_pc' = "returned"
    /\ UNCHANGED <<sim_ensemble, sim_constraints, sim_i, sim_calls, sim_flux, sim_raised,
                   notSimulate>>

NextSimulate == SimulateMember \/ SimulateReturn

SpecSimulate == InitSimulate /\ [][NextSimulate]_vars

\* The constraints the claim gives the call for member i: the caller's
\* where the caller names the reaction, else (0, 0) for exactly the
\* reactions whose state is false at i.
ClaimedConstraints(i) ==
    LET caller == IF IsNone(sim_constraints) THEN <<>> ELSE Val(sim_constraints)
        off == {r \in Reactions : r \in DOMAIN sim_ensemble.reaction_states
                                   /\ ~sim_ensemble.reaction_states[r][i + 1]}
    IN  [r \in off \cup DOMAIN caller |-> IF r \in DOMAIN caller THEN caller[r] ELSE <<0, 0>>]

\* What the claim says of a call that is over.
SolvedOncePerMember ==
    /\ sim_raised = ""
    /\ Len(sim_calls) = sim_ensemble.size
    /\ \A k \in 1..Len(sim_calls) :
           /\ sim_calls[k].member = k - 1
           /\ sim_calls[k].constraints = ClaimedConstraints(k - 1)
           /\ \A r \in Reactions :
                  sim_flux[r][k] = IF sim_calls[k].sol.status = OPTIMAL
                                   THEN Some(sim_calls[k].sol.values[r]) ELSE None

\* C16: simulate_ensemble solves once per member, members 0..size-1 in
\* order, also when the caller passes no constraints; member i is solved
\* with (0, 0) on exactly the reactions switched off at i, the caller's
\* constraints first; its fluxes are recorded when the status is optimal
\* and stay None otherwise, and the other members are solved all the same.
C16_SolvedOncePerMember ==
    sim_pc \in {"returned", "raised"} => SolvedOncePerMember

\* A bound that is set and lies strictly between the two default bounds.
Inside(x) ==
    /\ ~IsNone(x)
    /\ DEFAULT_LOWER_BOUND < Val(x)
    /\ Val(x) < DEFAULT_UPPER_BOUND

\* C17: under the fbc2 flavor every reaction with
\* -1000 < lower <= upper < 1000, a bound of 0 included, is loaded back with
\* the (lower, upper) pair it was saved with, and the two parameters it
\* references are in the model-wide parameter table.
C17_Fbc2BoundsRoundTripWithZero ==
    (pc = "loaded" /\ flavor = FBC2_MODEL) =>
        \A r \in Reactions :
            (Inside(bounds[r][1]) /\ Inside(bounds[r][2])
                /\ Val(bounds[r][1]) <= Val(bounds[r][2])) =>
                /\ loaded.returned
                /\ Val(loaded.bounds)[r] = bounds[r]
                /\ sbml.fluxBounds[r].lower \in ParameterIds(sbml)
                /\ sbml.fluxBounds[r].upper \in ParameterIds(sbml)

====
